---- MODULE Spec2Model ----
(***************************************************************************)
(* A model of the validation core of doctor: parse_value                   *)
(* (doctor/parsers.py) and the type classes String, Integer, Number,       *)
(* Object and Array (doctor/types.py) with TypeSystemError                 *)
(* (doctor/errors.py).                                                     *)
(*                                                                         *)
(* Python values are tagged records [t |-> tag, v |-> payload]:            *)
(*   none, bool (BOOLEAN), int (Int), float, str (sequence of one-char     *)
(*   strings), list (sequence of values), dict (function from key values   *)
(*   to values).  A finite float is the decimal num / 10^scale.            *)
(* Every call is one step: Init draws the class attributes and the         *)
(* argument, the action runs the callable and stores what it returned or   *)
(* raised.                                                                 *)
(***************************************************************************)
EXTENDS Integers, Sequences, FiniteSets, TLC

VARIABLES
    op,             \* "call" before the callable has run, its name after
    cls,            \* the type class a value is validated by (its attributes)
    allowed_types,  \* parse_value's allowed_types
    value,          \* the raw argument
    result,         \* what the call returned or raised
    resolver,       \* the SchemaRefResolver: its store and its _scopes_stack
    frames,         \* the calls of resolve that have not returned, innermost last
    logic,          \* the logic function of a route: its doctor attributes
    threads         \* the threads that run concurrently: where each one is

vars == <<op, cls, allowed_types, value, result, resolver, frames, logic, threads>>

(***************************************************************************)
(* Bounds of the model.                                                    *)
(***************************************************************************)
\* longest enumerated raw string handed to parse_value
MaxLen == 2
\* longest enumerated allowed_types list
MaxAllowed == 2
\* minimum and maximum of a numeric class are enumerated over 0..MaxBound
MaxBound == 2
\* raw integers handed to a numeric class are enumerated over -1..MaxInt
MaxInt == 3
\* longest enumerated list handed to an Array class
MaxItems == 3
\* longest enumerated list of item types of an Array class
MaxTypes == 2
\* longest enumerated raw string handed to a String class
MaxStr == 3
\* longest chain of references that is followed when a claim is stated: a
\* chain over the nine URIs of the schema and its files that is longer repeats
MaxChain == 11
\* most parameters of a request handed to the parameter parsers
MaxParams == 3
\* most routes handed to create_routes
MaxRoutes == 3
\* most threads that use one Schema at a time
MaxThreads == 2
\* most accesses of Schema.resolver by one thread
MaxAccesses == 2
\* most applications of add_param_annotations to one function
MaxApplications == 2
\* most parameters given to one application
MaxAnnotations == 2

(***************************************************************************)
(* Python values.                                                          *)
(***************************************************************************)
None == [t |-> "none", v |-> 0]
PyBool(b) == [t |-> "bool", v |-> b]
PyInt(n) == [t |-> "int", v |-> n]
PyStr(s) == [t |-> "str", v |-> s]
PyList(s) == [t |-> "list", v |-> s]
PyDict(f) == [t |-> "dict", v |-> f]

RECURSIVE Pow10(_)
Pow10(k) == IF k = 0 THEN 1 ELSE 10 * Pow10(k - 1)

Abs(n) == IF n < 0 THEN -n ELSE n

\* a finite float num / 10^scale, kept in lowest decimal terms so that equal
\* floats are equal records
RECURSIVE FloatNorm(_, _)
FloatNorm(num, scale) ==
    IF num = 0 THEN [t |-> "float", fk |-> "finite", num |-> 0, scale |-> 0]
    ELSE IF scale > 0 /\ num % 10 = 0 THEN FloatNorm(num \div 10, scale - 1)
    ELSE [t |-> "float", fk |-> "finite", num |-> num, scale |-> scale]

PyFloat(num, scale) ==
    IF scale >= 0 THEN FloatNorm(num, scale)
    ELSE FloatNorm(num * Pow10(-scale), 0)

PyNaN == [t |-> "float", fk |-> "nan", num |-> 0, scale |-> 0]
PyInf(sign) == [t |-> "float", fk |-> "inf", num |-> sign, scale |-> 0]

(***************************************************************************)
(* Characters and str methods.                                             *)
(***************************************************************************)
DigitChars == <<"0", "1", "2", "3", "4", "5", "6", "7", "8", "9">>
UpperChars == <<"A", "B", "C", "D", "E", "F", "G", "H", "I", "J", "K", "L", "M",
                "N", "O", "P", "Q", "R", "S", "T", "U", "V", "W", "X", "Y", "Z">>
LowerChars == <<"a", "b", "c", "d", "e", "f", "g", "h", "i", "j", "k", "l", "m",
                "n", "o", "p", "q", "r", "s", "t", "u", "v", "w", "x", "y", "z">>
Whitespace == {" ", "\t", "\n", "\r"}

Range(s) == {s[i] : i \in DOMAIN s}
IsDigit(c) == c \in Range(DigitChars)
DigitVal(c) == (CHOOSE i \in DOMAIN DigitChars : DigitChars[i] = c) - 1

LowerChar(c) ==
    IF c \in Range(UpperChars)
    THEN LowerChars[CHOOSE i \in DOMAIN UpperChars : UpperChars[i] = c]
    ELSE c

\* str.lower
Lower(s) == [i \in DOMAIN s |-> LowerChar(s[i])]

\* str.lstrip
RECURSIVE LStrip(_)
LStrip(s) == IF s # <<>> /\ Head(s) \in Whitespace THEN LStrip(Tail(s)) ELSE s

\* str.rstrip
RECURSIVE RStrip(_)
RStrip(s) ==
    IF s # <<>> /\ s[Len(s)] \in Whitespace
    THEN RStrip(SubSeq(s, 1, Len(s) - 1)) ELSE s

\* str.strip
Strip(s) == RStrip(LStrip(s))

\* a sequence from position i on
From(s, i) == SubSeq(s, i, Len(s))

\* s[i..] starts with the literal lit
StartsWith(s, i, lit) ==
    /\ i + Len(lit) - 1 <= Len(s)
    /\ SubSeq(s, i, i + Len(lit) - 1) = lit

\* the character at position i, "" past the end
At(s, i) == IF i >= 1 /\ i <= Len(s) THEN s[i] ELSE ""

RECURSIVE DigitsToInt(_)
DigitsToInt(ds) ==
    IF ds = <<>> THEN 0
    ELSE 10 * DigitsToInt(SubSeq(ds, 1, Len(ds) - 1)) + DigitVal(ds[Len(ds)])

\* the longest run digit ("_"? digit)* starting at i: its digits and the
\* position after it (no digits when s[i] is not a digit)
RECURSIVE ScanDigits(_, _, _)
ScanDigits(s, i, acc) ==
    IF IsDigit(At(s, i)) THEN ScanDigits(s, i + 1, Append(acc, s[i]))
    ELSE IF acc # <<>> /\ At(s, i) = "_" /\ IsDigit(At(s, i + 1))
    THEN ScanDigits(s, i + 2, Append(Append(acc, "_"), s[i + 1]))
    ELSE [ds |-> SelectSeq(acc, IsDigit), i |-> i]

Fail == [ok |-> FALSE, v |-> None]
Ok(v) == [ok |-> TRUE, v |-> v]

\* int(str): surrounding whitespace, an optional sign, digits that may be
\* grouped by single underscores; anything else is a ValueError
IntOfStr(s) ==
    LET t == Strip(s)
        signed == At(t, 1) \in {"+", "-"}
        start == IF signed THEN 2 ELSE 1
        run == ScanDigits(t, start, <<>>)
        n == DigitsToInt(run.ds)
    IN  IF run.ds # <<>> /\ run.i = Len(t) + 1
        THEN Ok(PyInt(IF At(t, 1) = "-" THEN -n ELSE n))
        ELSE Fail

\* float(str): surrounding whitespace, an optional sign, then inf, infinity
\* or nan in any case, or digits [. digits] [e [sign] digits] with at least
\* one mantissa digit; anything else is a ValueError
FloatOfStr(s) ==
    LET t == Strip(s)
        signed == At(t, 1) \in {"+", "-"}
        sgn == IF At(t, 1) = "-" THEN -1 ELSE 1
        start == IF signed THEN 2 ELSE 1
        word == Lower(From(t, start))
        ip == ScanDigits(t, start, <<>>)
        dot == At(t, ip.i) = "."
        fp == IF dot THEN ScanDigits(t, ip.i + 1, <<>>)
                     ELSE [ds |-> <<>>, i |-> ip.i]
        hasExp == At(t, fp.i) \in {"e", "E"}
        esigned == At(t, fp.i + 1) \in {"+", "-"}
        esgn == IF At(t, fp.i + 1) = "-" THEN -1 ELSE 1
        ep == IF hasExp
              THEN ScanDigits(t, IF esigned THEN fp.i + 2 ELSE fp.i + 1, <<>>)
              ELSE [ds |-> <<>>, i |-> fp.i]
        mant == DigitsToInt(ip.ds \o fp.ds)
        exp == esgn * DigitsToInt(ep.ds)
    IN  IF word \in {<<"i", "n", "f">>, <<"i", "n", "f", "i", "n", "i", "t", "y">>}
        THEN Ok(PyInf(sgn))
        ELSE IF word = <<"n", "a", "n">> THEN Ok(PyNaN)
        ELSE IF /\ ip.ds \o fp.ds # <<>>
                /\ hasExp => ep.ds # <<>>
                /\ ep.i = Len(t) + 1
        THEN Ok(PyFloat(sgn * mant, Len(fp.ds) - exp))
        ELSE Fail

(***************************************************************************)
(* json.loads, as far as parse_value needs it: arrays, objects, strings    *)
(* without escapes, numbers and the literals.  A parse is                  *)
(* [ok, v, i]: whether a value was read, the value, the position after it. *)
(***************************************************************************)
JFail == [ok |-> FALSE, v |-> None, i |-> 0]
JOk(v, i) == [ok |-> TRUE, v |-> v, i |-> i]

RECURSIVE SkipWs(_, _)
SkipWs(s, i) == IF At(s, i) \in Whitespace THEN SkipWs(s, i + 1) ELSE i

RECURSIVE ScanPlainDigits(_, _)
ScanPlainDigits(s, i) ==
    IF IsDigit(At(s, i)) THEN ScanPlainDigits(s, i + 1) ELSE i

\* the number -?(0|[1-9][0-9]*)(.[0-9]+)?([eE][+-]?[0-9]+)? at position i
JNumber(s, i) ==
    LET start == IF At(s, i) = "-" THEN i + 1 ELSE i
        iend == IF At(s, start) = "0" THEN start + 1
                ELSE ScanPlainDigits(s, start)
        fend == IF At(s, iend) = "." /\ IsDigit(At(s, iend + 1))
                THEN ScanPlainDigits(s, iend + 1) ELSE iend
        estart == IF At(s, fend + 1) \in {"+", "-"} THEN fend + 2 ELSE fend + 1
        eend == IF At(s, fend) \in {"e", "E"} /\ IsDigit(At(s, estart))
                THEN ScanPlainDigits(s, estart) ELSE fend
        text == SubSeq(s, i, eend - 1)
    IN  IF iend = start THEN JFail
        ELSE IF eend = iend THEN JOk(IntOfStr(text).v, eend)
        ELSE JOk(FloatOfStr(text).v, eend)

\* the position of the closing quote of a string whose first character is at
\* i, 0 when it is not closed or holds a control character or an escape
RECURSIVE JStringEnd(_, _)
JStringEnd(s, i) ==
    IF i > Len(s) \/ s[i] \in {"\t", "\n", "\r", "\\"} THEN 0
    ELSE IF s[i] = "\"" THEN i
    ELSE JStringEnd(s, i + 1)

JString(s, i) ==
    LET e == JStringEnd(s, i + 1)
    IN  IF At(s, i) = "\"" /\ e # 0
        THEN JOk(PyStr(SubSeq(s, i + 1, e - 1)), e + 1) ELSE JFail

\* a dict with one more key, a later key replacing an earlier equal one
DictSet(d, k, v) == [x \in DOMAIN d \cup {k} |-> IF x = k THEN v ELSE d[x]]

RECURSIVE JValue(_, _), JArrayItems(_, _, _), JObjectItems(_, _, _)

JValue(s, i) ==
    LET c == At(s, i)
    IN  IF c = "[" THEN
            IF At(s, SkipWs(s, i + 1)) = "]"
            THEN JOk(PyList(<<>>), SkipWs(s, i + 1) + 1)
            ELSE JArrayItems(s, SkipWs(s, i + 1), <<>>)
        ELSE IF c = "{" THEN
            IF At(s, SkipWs(s, i + 1)) = "}"
            THEN JOk(PyDict(<<>>), SkipWs(s, i + 1) + 1)
            ELSE JObjectItems(s, SkipWs(s, i + 1), <<>>)
        ELSE IF c = "\"" THEN JString(s, i)
        ELSE IF StartsWith(s, i, <<"t", "r", "u", "e">>)
        THEN JOk(PyBool(TRUE), i + 4)
        ELSE IF StartsWith(s, i, <<"f", "a", "l", "s", "e">>)
        THEN JOk(PyBool(FALSE), i + 5)
        ELSE IF StartsWith(s, i, <<"n", "u", "l", "l">>) THEN JOk(None, i + 4)
        ELSE IF StartsWith(s, i, <<"N", "a", "N">>) THEN JOk(PyNaN, i + 3)
        ELSE IF StartsWith(s, i, <<"I", "n", "f", "i", "n", "i", "t", "y">>)
        THEN JOk(PyInf(1), i + 8)
        ELSE IF StartsWith(s, i, <<"-", "I", "n", "f", "i", "n", "i", "t", "y">>)
        THEN JOk(PyInf(-1), i + 9)
        ELSE JNumber(s, i)

\* the items of an array from position i on (at a value), acc read so far
JArrayItems(s, i, acc) ==
    LET item == JValue(s, i)
        j == SkipWs(s, item.i)
    IN  IF ~item.ok THEN JFail
        ELSE IF At(s, j) = "]" THEN JOk(PyList(Append(acc, item.v)), j + 1)
        ELSE IF At(s, j) = ","
        THEN JArrayItems(s, SkipWs(s, j + 1), Append(acc, item.v))
        ELSE JFail

\* the pairs of an object from position i on (at a key), acc read so far
JObjectItems(s, i, acc) ==
    LET key == JString(s, i)
        colon == SkipWs(s, key.i)
        item == JValue(s, SkipWs(s, colon + 1))
        j == SkipWs(s, item.i)
        d == DictSet(acc, key.v, item.v)
    IN  IF ~key.ok \/ At(s, colon) # ":" THEN JFail
        ELSE IF ~item.ok THEN JFail
        ELSE IF At(s, j) = "}" THEN JOk(PyDict(d), j + 1)
        ELSE IF At(s, j) = "," /\ At(s, SkipWs(s, j + 1)) = "\""
        THEN JObjectItems(s, SkipWs(s, j + 1), d)
        ELSE JFail

\* json.loads(s): one value between optional whitespace, else a ValueError
JsonLoads(s) ==
    LET r == JValue(s, SkipWs(s, 1))
    IN  IF r.ok /\ SkipWs(s, r.i) = Len(s) + 1 THEN Ok(r.v) ELSE Fail

(***************************************************************************)
(* Outcomes of a call.                                                     *)
(***************************************************************************)
Pending == [exc |-> "pending", v |-> None]
Returned(v) == [exc |-> "none", v |-> v]
Raised(e, detail) == [exc |-> e, v |-> detail]

(***************************************************************************)
(* doctor/parsers.py                                                       *)
(***************************************************************************)
_true_strings == {<<"t", "r", "u", "e">>}
_false_strings == {<<"f", "a", "l", "s", "e">>}

\* a parser's outcome: the value it returned (None for "not this type"), or
\* exc when it raised TypeError or ValueError
ParserReturn(v) == [exc |-> FALSE, v |-> v]
ParserRaise == [exc |-> TRUE, v |-> None]
OfBuiltin(r) == IF r.ok THEN ParserReturn(r.v) ELSE ParserRaise

_parse_array(v) ==
    LET s == LStrip(v)
    IN  IF s = <<>> \/ s[1] # "[" THEN ParserReturn(None)
        ELSE OfBuiltin(JsonLoads(s))

_parse_boolean(v) ==
    IF Lower(v) \in _true_strings THEN ParserReturn(PyBool(TRUE))
    ELSE IF Lower(v) \in _false_strings THEN ParserReturn(PyBool(FALSE))
    ELSE ParserReturn(None)

_parse_object(v) ==
    LET s == LStrip(v)
    IN  IF s = <<>> \/ s[1] # "{" THEN ParserReturn(None)
        ELSE OfBuiltin(JsonLoads(s))

_parse_string(v) == ParserReturn(PyStr(v))

\* _parser_funcs with the catch-all parser first
_parser_funcs_string_first ==
    <<"string", "boolean", "integer", "number", "array", "object">>

_parser_funcs == <<"boolean", "integer", "number", "array", "object", "string">>

\* the parser _parser_funcs pairs with a type name, applied to v
Parser(name, v) ==
    CASE name = "boolean" -> _parse_boolean(v)
      [] name = "integer" -> OfBuiltin(IntOfStr(v))
      [] name = "number" -> OfBuiltin(FloatOfStr(v))
      [] name = "array" -> _parse_array(v)
      [] name = "object" -> _parse_object(v)
      [] name = "string" -> _parse_string(v)

\* allowed_type in allowed_types, after a str allowed_types was wrapped in a
\* list
InAllowed(name, allowed) ==
    IF allowed.t = "str" THEN name = allowed.v
    ELSE \E i \in DOMAIN allowed.v : allowed.v[i] = name

\* ParseLoop without the except clause: a parser that raises ends the call
RECURSIVE ParseLoopPropagate(_, _, _)
ParseLoopPropagate(v, allowed, i) ==
    IF i > Len(_parser_funcs)
    THEN Raised("ParseError", [name |-> "value", allowed_types |-> allowed.v])
    ELSE LET name == _parser_funcs[i]
             parsed == Parser(name, v)
         IN  IF InAllowed(name, allowed) /\ parsed.exc
             THEN Raised("ParseError", [name |-> "value", allowed_types |-> allowed.v])
             ELSE IF InAllowed(name, allowed) /\ parsed.v.t # "none"
             THEN Returned([type |-> name, value |-> parsed.v])
             ELSE ParseLoopPropagate(v, allowed, i + 1)

\* the loop over _parser_funcs from position i on
RECURSIVE ParseLoop(_, _, _)
ParseLoop(v, allowed, i) ==
    IF i > Len(_parser_funcs)
    THEN Raised("ParseError", [name |-> "value", allowed_types |-> allowed.v])
    ELSE LET name == _parser_funcs[i]
             parsed == Parser(name, v)
         IN  IF InAllowed(name, allowed) /\ ~parsed.exc /\ parsed.v.t # "none"
             THEN Returned([type |-> name, value |-> parsed.v])
             ELSE ParseLoop(v, allowed, i + 1)

parse_value(val, allowed) ==
    IF val.t # "str" THEN Raised("ValueError", None)
    ELSE IF InAllowed("null", allowed) /\ val.v = <<>>
    THEN Returned([type |-> "null", value |-> None])
    ELSE ParseLoop(val.v, allowed, 1)

(***************************************************************************)
(* The calls of parse_value that are checked.                              *)
(***************************************************************************)
SeqsUpTo(S, n) == UNION {[1..k -> S] : k \in 0..n}

\* the characters the enumerated raw strings are made of
ParseAlphabet == {"1", "-", ".", " ", "[", "]"}

\* further raw strings: the literals, longer numbers, JSON documents and
\* broken JSON
ExtraValues ==
    {<<"t", "r", "u", "e">>,
     <<"T", "r", "u", "e">>,
     <<"T", "R", "U", "E">>,
     <<"f", "a", "l", "s", "e">>,
     <<"F", "a", "l", "s", "e">>,
     <<"t", "r", "u">>,
     <<"0">>,
     <<"1", "2">>,
     <<"0", "0", "7">>,
     <<" ", "1", "2", " ">>,
     <<"1", "_", "0">>,
     <<"+", "1">>,
     <<"0", ".", "5">>,
     <<"1", "e", "1">>,
     <<"n", "a", "n">>,
     <<"i", "n", "f">>,
     <<"f", "o", "o">>,
     <<"[", "1", "]">>,
     <<"[", "1">>,
     <<" ", "[", "]">>,
     <<"[", "1", ",", "2", "]">>,
     <<"[", "1", ",", "]">>,
     <<"[", "]", "]">>,
     <<"[", "t", "r", "u", "e", "]">>,
     <<"[", "[", "]", "]">>,
     <<"{", "}">>,
     <<"{">>,
     <<" ", "{", "}">>,
     <<"{", "\"", "a", "\"", ":", "1", "}">>,
     <<"{", "\"", "a", "\"", ":", "[", "1", "]", "}">>,
     <<"{", "\"", "a", "\"", "}">>,
     <<"{", "1", "}">>,
     <<"[", "{", "}", "]">>}

ParseValues == SeqsUpTo(ParseAlphabet, MaxLen) \cup ExtraValues

\* the type names parse_value knows
KindOrder == <<"null", "boolean", "integer", "number", "array", "object", "string">>
Kinds == Range(KindOrder)

Distinct(s) == \A i, j \in DOMAIN s : i # j => s[i] # s[j]

\* further allowed_types: the orders of integer, number and string, every
\* kind at once in both directions, and a name parse_value does not know
ExtraAllowed ==
    {<<"integer", "number", "string">>, <<"integer", "string", "number">>,
     <<"number", "integer", "string">>, <<"number", "string", "integer">>,
     <<"string", "integer", "number">>, <<"string", "number", "integer">>,
     <<"string", "object", "array">>, <<"string", "array", "object">>,
     <<"string", "float", "integer">>, <<"float">>,
     <<"boolean", "string", "null">>,
     KindOrder,
     <<"string", "object", "array", "number", "integer", "boolean", "null">>}

AllowedLists ==
    {a \in SeqsUpTo(Kinds, MaxAllowed) : Distinct(a)} \cup ExtraAllowed

\* allowed_types is a list of names, or one name as a str
AllowedTypes ==
    {PyList(a) : a \in AllowedLists} \cup {[t |-> "str", v |-> k] : k \in Kinds}

InitParse ==
    /\ op = "call"
    /\ cls = None
    /\ allowed_types \in AllowedTypes
    /\ value \in {PyStr(v) : v \in ParseValues} \cup {PyInt(1337)}
    /\ result = Pending
    /\ resolver = None
    /\ frames = <<>>
    /\ logic = None
    /\ threads = <<>>

ParseValue ==
    /\ op = "call"
    /\ op' = "parse_value"
    /\ result' = parse_value(value, allowed_types)
    /\ UNCHANGED <<cls, allowed_types, value, resolver, frames, logic, threads>>

NextParse == ParseValue

SpecParse == InitParse /\ [][NextParse]_vars

(***************************************************************************)
(* parse_value: the claims.                                                *)
(***************************************************************************)
\* the names in allowed_types
AllowedNames ==
    IF allowed_types.t = "str" THEN {allowed_types.v} ELSE Range(allowed_types.v)

\* the raw string v can be read as the kind: null is the empty string only,
\* every other kind is what its parser accepts
Matches(kind, v) ==
    IF kind = "null" THEN v = <<>>
    ELSE ~Parser(kind, v).exc /\ Parser(kind, v).v.t # "none"

\* the kind's reading of v
KindValue(kind, v) == IF kind = "null" THEN None ELSE Parser(kind, v).v

\* positions in the fixed order of the kinds that are allowed and match
Candidates ==
    {i \in DOMAIN KindOrder :
        KindOrder[i] \in AllowedNames /\ Matches(KindOrder[i], value.v)}

FirstCandidate == CHOOSE i \in Candidates : \A j \in Candidates : i <= j

DigitsOnly(v) == v # <<>> /\ \A i \in DOMAIN v : IsDigit(v[i])

ParsedString == op = "parse_value" /\ value.t = "str"

\* C1: parse_value returns the first kind, in the order null, boolean,
\* integer, number, array, object, string, that is allowed and matches the
\* string, with that kind's reading of it; only the set of allowed kinds
\* counts, not their positions, so a string of digits with integer, number and
\* string allowed comes back as integer.
C1_FirstAllowedKindInFixedOrder ==
    ParsedString =>
        /\ Candidates # {} =>
                /\ result.exc = "none"
                /\ result.v.type = KindOrder[FirstCandidate]
                /\ result.v.value = KindValue(KindOrder[FirstCandidate], value.v)
        /\ (DigitsOnly(value.v) /\ {"integer", "number", "string"} \subseteq AllowedNames)
            => (result.exc = "none" /\ result.v.type = "integer"
                /\ result.v.value = PyInt(DigitsToInt(value.v)))

\* digits parsed with string listed first and integer last
C1_Witness ==
    /\ op = "parse_value"
    /\ value = PyStr(<<"1", "2">>)
    /\ allowed_types = PyList(<<"string", "number", "integer">>)
    /\ result = Returned([type |-> "integer", value |-> PyInt(12)])

\* the raw string looks like a JSON array or object and is not valid JSON
BrokenJson(v) ==
    LET s == LStrip(v)
    IN  s # <<>> /\ s[1] \in {"[", "{"} /\ ~JsonLoads(s).ok

\* C2: parse_value raises ParseError exactly when no allowed kind matches the
\* string and returns otherwise; a string that starts like an array or object
\* and is not valid JSON is passed on to the later kinds, so it is returned as
\* string when string is allowed and is a ParseError only when it is not.
C2_ParseErrorIffNoKindMatches ==
    ParsedString =>
        /\ result.exc \in {"none", "ParseError"}
        /\ result.exc = "ParseError" <=> Candidates = {}
        /\ BrokenJson(value.v) =>
                IF "string" \in AllowedNames
                THEN result = Returned([type |-> "string", value |-> value])
                ELSE result.exc = "ParseError"

\* a broken array falls through array to string
C2_Witness ==
    /\ op = "parse_value"
    /\ value = PyStr(<<"[", "1">>)
    /\ allowed_types = PyList(<<"array", "string">>)
    /\ result = Returned([type |-> "string", value |-> PyStr(<<"[", "1">>)])

(***************************************************************************)
(* doctor/types.py: classes.  A class is the record of its attributes as   *)
(* attribute lookup finds them; own holds the names in the class's own     *)
(* __dict__, which is what TypeSystemError formats a message with.         *)
(***************************************************************************)
\* a str whose characters are never looked at
Text(s) == PyStr(<<s>>)

\* type(name, (base,), kwargs)
Subclass(base, kwargs) ==
    [a \in DOMAIN base \cup DOMAIN kwargs |->
        IF a = "own" THEN (DOMAIN kwargs) \ {"own"}
        ELSE IF a \in DOMAIN kwargs THEN kwargs[a] ELSE base[a]]

HasAttr(c, a) == a \in DOMAIN c

String ==
    [kind |-> "String", description |-> None, format |-> None,
     max_length |-> None, min_length |-> None, pattern |-> None,
     trim_whitespace |-> TRUE, own |-> {}]

_NumericType ==
    [kind |-> "_NumericType", description |-> None, minimum |-> None,
     maximum |-> None, exclusive_minimum |-> FALSE,
     exclusive_maximum |-> FALSE, multiple_of |-> None, own |-> {}]

Number == [_NumericType EXCEPT !.kind = "Number"]
Integer == [_NumericType EXCEPT !.kind = "Integer"]

Boolean == [kind |-> "Boolean", description |-> None, own |-> {}]

\* the factory functions
string(kwargs) == Subclass(String, kwargs)
integer(kwargs) == Subclass(Integer, kwargs)
number(kwargs) == Subclass(Number, kwargs)
boolean(kwargs) == Subclass(Boolean, kwargs)

(***************************************************************************)
(* doctor/errors.py: TypeSystemError.  A message is its template and the   *)
(* attribute value interpolated into it.                                   *)
(***************************************************************************)
Msg(fmt, arg) == [t |-> "msg", fmt |-> fmt, arg |-> arg]

StringErrors ==
    [blank |-> "Must not be blank.",
     max_length |-> "Must have no more than {max_length} characters.",
     min_length |-> "Must have at least {min_length} characters.",
     pattern |-> "Must match the pattern /{pattern}/."]

NumericErrors ==
    [type |-> "Must be a valid number.",
     finite |-> "Must be a finite number.",
     minimum |-> "Must be greater than or equal to {minimum}.",
     exclusive_minimum |-> "Must be greater than {minimum}.",
     maximum |-> "Must be less than or equal to {maximum}.",
     exclusive_maximum |-> "Must be less than {maximum}.",
     multiple_of |-> "Must be a multiple of {multiple_of}."]

BooleanErrors == [type |-> "Must be a valid boolean."]

EnumErrors == [invalid |-> "Must be a valid choice."]

ObjectErrors ==
    [type |-> "Must be an object.",
     invalid_key |-> "Object keys must be strings.",
     required |-> "This field is required.",
     additional_properties |-> "Additional properties are not allowed."]

ArrayErrors ==
    [type |-> "Must be a list.",
     min_items |-> "Not enough items.",
     max_items |-> "Too many items.",
     unique_items |-> "This item is not unique."]

\* the errors attribute of a class
ErrorsOf(c) ==
    CASE c.kind = "String" -> StringErrors
      [] c.kind \in {"Integer", "Number"} -> NumericErrors
      [] c.kind = "Boolean" -> BooleanErrors
      [] c.kind = "Enum" -> EnumErrors
      [] c.kind = "Object" -> ObjectErrors
      [] c.kind = "Array" -> ArrayErrors

\* the replacement field of the template of a code, "" when it has none
FieldOf(code) ==
    CASE code \in {"max_length", "min_length", "pattern", "multiple_of"} -> code
      [] code \in {"minimum", "exclusive_minimum"} -> "minimum"
      [] code \in {"maximum", "exclusive_maximum"} -> "maximum"
      [] OTHER -> ""

\* cls_errors[code].format(**cls.__dict__): a field that is not in the
\* class's own __dict__ is a KeyError
Format(c, code) ==
    IF FieldOf(code) = "" THEN Ok(Msg(ErrorsOf(c)[code], None))
    ELSE IF FieldOf(code) \in c.own THEN Ok(Msg(ErrorsOf(c)[code], c[FieldOf(code)]))
    ELSE Fail

\* raise TypeSystemError(cls=cls, code=code)
TypeSystemError(c, code) ==
    IF Format(c, code).ok THEN Raised("TypeSystemError", Format(c, code).v)
    ELSE Raised("KeyError", Text(FieldOf(code)))

(***************************************************************************)
(* String.__new__                                                          *)
(***************************************************************************)
RECURSIVE IntToDigits(_)
IntToDigits(n) ==
    IF n < 10 THEN <<DigitChars[n + 1]>>
    ELSE Append(IntToDigits(n \div 10), DigitChars[(n % 10) + 1])

\* a number below 100 in two digits
TwoDigits(n) == <<DigitChars[(n \div 10) + 1], DigitChars[(n % 10) + 1]>>

\* str(x) of a str, an int, a bool, None, a list of these, or a datetime of
\* 1900-01-01 (v is its hour, minute and second)
RECURSIVE StrOf(_), Repr(_), JoinRepr(_, _)
StrOf(x) ==
    CASE x.t = "str" -> x.v
      [] x.t = "int" ->
            IF x.v < 0 THEN <<"-">> \o IntToDigits(-x.v) ELSE IntToDigits(x.v)
      [] x.t = "bool" ->
            IF x.v THEN <<"T", "r", "u", "e">> ELSE <<"F", "a", "l", "s", "e">>
      [] x.t = "none" -> <<"N", "o", "n", "e">>
      [] x.t = "list" -> <<"[">> \o JoinRepr(x.v, 1) \o <<"]">>
      [] x.t = "datetime" ->
            <<"1", "9", "0", "0", "-", "0", "1", "-", "0", "1", " ">>
            \o TwoDigits(x.v[1]) \o <<":">> \o TwoDigits(x.v[2])
            \o <<":">> \o TwoDigits(x.v[3])

\* repr(x): a string without quotes and backslashes is put in single quotes
Repr(x) == IF x.t = "str" THEN <<"'">> \o x.v \o <<"'">> ELSE StrOf(x)

\* ', '.join(repr(x) for x in s[i:])
JoinRepr(s, i) ==
    IF i > Len(s) THEN <<>>
    ELSE IF i = Len(s) THEN Repr(s[i])
    ELSE Repr(s[i]) \o <<",", " ">> \o JoinRepr(s, i + 1)

\* re.search of a pattern without metacharacters: the pattern occurs in s
Search(pattern, s) == \E i \in 1..(Len(s) + 1) : StartsWith(s, i, pattern)

\* the two-digit alternatives of a strptime field match at i: two digits
\* that make a number up to limit
FieldTwo(s, i, limit) ==
    /\ IsDigit(At(s, i))
    /\ IsDigit(At(s, i + 1))
    /\ 10 * DigitVal(At(s, i)) + DigitVal(At(s, i + 1)) <= limit

\* where the ":" after the field at i is when the regular expression of
\* strptime matches there, 0 when it does not match
FieldEnd(s, i, limit) ==
    IF FieldTwo(s, i, limit) /\ At(s, i + 2) = ":" THEN i + 2
    ELSE IF IsDigit(At(s, i)) /\ At(s, i + 1) = ":" THEN i + 1
    ELSE 0

\* the position after the last field (%S) at i, 0 when it does not match
LastEnd(s, i) ==
    IF FieldTwo(s, i, 61) THEN i + 2
    ELSE IF IsDigit(At(s, i)) THEN i + 1
    ELSE 0

\* the outcome of strptime, h and m being the positions of the two ":" and e
\* the position after the match (0: no match)
StrptimeAt(s, h, m, e) ==
    IF e = 0
    THEN Raised("ValueError",
                Msg("time data {!r} does not match format '%H:%M:%S'", PyStr(s)))
    ELSE IF e <= Len(s)
    THEN Raised("ValueError", Msg("unconverted data remains: {}", PyStr(From(s, e))))
    ELSE IF DigitsToInt(SubSeq(s, m + 1, e - 1)) > 59
    THEN Raised("ValueError", Msg("second must be in 0..59", None))
    ELSE Returned([t |-> "datetime",
                   v |-> <<DigitsToInt(SubSeq(s, 1, h - 1)),
                           DigitsToInt(SubSeq(s, h + 1, m - 1)),
                           DigitsToInt(SubSeq(s, m + 1, e - 1))>>])

StrptimeFrom(s, h, m) == StrptimeAt(s, h, m, IF m = 0 THEN 0 ELSE LastEnd(s, m + 1))

\* datetime.strptime(s, "%H:%M:%S")
Strptime(s) ==
    StrptimeFrom(s, FieldEnd(s, 1, 23),
                 IF FieldEnd(s, 1, 23) = 0 THEN 0
                 ELSE FieldEnd(s, FieldEnd(s, 1, 23) + 1, 59))

\* except ValueError as e: raise TypeSystemError(str(e), cls=cls)
FormatOutcome(parsed) ==
    IF parsed.exc = "none" THEN parsed ELSE Raised("TypeSystemError", parsed.v)

\* the format block of String.__new__ for format None, email and time
StringFormat(c, val) ==
    IF c.format.t = "none" THEN Returned(PyStr(val))
    ELSE CASE c.format.v = <<"email">> ->
                IF "@" \notin Range(val)
                THEN Raised("TypeSystemError", Msg("Not a valid email address.", None))
                ELSE Returned(PyStr(val))
           [] c.format.v = <<"time">> -> FormatOutcome(Strptime(val))

\* StringNew with the lengths and the pattern checked before value.strip()
StringNewTrimLate(c, x) ==
    LET raw == StrOf(x)
        val == IF c.trim_whitespace THEN Strip(StrOf(x)) ELSE StrOf(x)
    IN  IF c.min_length.t # "none" /\ Len(raw) < c.min_length.v
        THEN (IF c.min_length.v = 1 THEN TypeSystemError(c, "blank")
              ELSE TypeSystemError(c, "min_length"))
        ELSE IF c.max_length.t # "none" /\ Len(raw) > c.max_length.v
        THEN TypeSystemError(c, "max_length")
        ELSE IF c.pattern.t # "none" /\ ~Search(c.pattern.v, raw)
        THEN TypeSystemError(c, "pattern")
        ELSE StringFormat(c, val)

\* String.__new__ for format None, email and time
StringNew(c, x) ==
    LET val == IF c.trim_whitespace THEN Strip(StrOf(x)) ELSE StrOf(x)
    IN  IF c.min_length.t # "none" /\ Len(val) < c.min_length.v
        THEN (IF c.min_length.v = 1 THEN TypeSystemError(c, "blank")
              ELSE TypeSystemError(c, "min_length"))
        ELSE IF c.max_length.t # "none" /\ Len(val) > c.max_length.v
        THEN TypeSystemError(c, "max_length")
        ELSE IF c.pattern.t # "none" /\ ~Search(c.pattern.v, val)
        THEN TypeSystemError(c, "pattern")
        ELSE StringFormat(c, val)

(***************************************************************************)
(* _NumericType.__new__                                                    *)
(***************************************************************************)
\* a number as num / 10^scale
Num(x) ==
    CASE x.t = "int" -> [num |-> x.v, scale |-> 0]
      [] x.t = "bool" -> [num |-> IF x.v THEN 1 ELSE 0, scale |-> 0]
      [] x.t = "float" -> [num |-> x.num, scale |-> x.scale]

NumLt(a, b) ==
    Num(a).num * Pow10(Num(b).scale) < Num(b).num * Pow10(Num(a).scale)

NumLe(a, b) ==
    Num(a).num * Pow10(Num(b).scale) <= Num(b).num * Pow10(Num(a).scale)

\* v is a whole multiple of m # 0
IsMultiple(v, m) ==
    (Num(v).num * Pow10(Num(m).scale)) % Abs(Num(m).num * Pow10(Num(v).scale)) = 0

\* int(float): towards zero
Trunc(x) ==
    IF x.num >= 0 THEN x.num \div Pow10(x.scale)
    ELSE -((-x.num) \div Pow10(x.scale))

BuiltinRaise(e) == [exc |-> e, v |-> None]
BuiltinReturn(v) == [exc |-> "none", v |-> v]

\* int.__new__(cls, x)
IntNew(x) ==
    CASE x.t = "str" ->
            IF IntOfStr(x.v).ok THEN BuiltinReturn(IntOfStr(x.v).v)
            ELSE BuiltinRaise("ValueError")
      [] x.t = "int" -> BuiltinReturn(x)
      [] x.t = "bool" -> BuiltinReturn(PyInt(IF x.v THEN 1 ELSE 0))
      [] x.t = "float" ->
            IF x.fk = "finite" THEN BuiltinReturn(PyInt(Trunc(x)))
            ELSE IF x.fk = "nan" THEN BuiltinRaise("ValueError")
            ELSE BuiltinRaise("OverflowError")
      [] OTHER -> BuiltinRaise("TypeError")

\* float.__new__(cls, x)
FloatNew(x) ==
    CASE x.t = "str" ->
            IF FloatOfStr(x.v).ok THEN BuiltinReturn(FloatOfStr(x.v).v)
            ELSE BuiltinRaise("ValueError")
      [] x.t \in {"int", "bool"} -> BuiltinReturn(PyFloat(Num(x).num, 0))
      [] x.t = "float" -> BuiltinReturn(x)
      [] OTHER -> BuiltinRaise("TypeError")

\* cls.native_type.__new__(cls, x)
NativeNew(c, x) == IF c.kind = "Integer" THEN IntNew(x) ELSE FloatNew(x)

\* math.isfinite
IsFinite(x) == x.t = "int" \/ x.fk = "finite"

\* the minimum check: the error it raises, or passed
CheckMinimum(c, val) ==
    IF c.minimum.t = "none" THEN "passed"
    ELSE IF c.exclusive_minimum
    THEN (IF NumLe(val, c.minimum) THEN "exclusive_minimum" ELSE "passed")
    ELSE (IF NumLt(val, c.minimum) THEN "minimum" ELSE "passed")

\* CheckMaximum with the two comparisons exchanged
CheckMaximumSwapped(c, val) ==
    IF c.maximum.t = "none" THEN "passed"
    ELSE IF c.exclusive_maximum
    THEN (IF NumLt(c.maximum, val) THEN "exclusive_maximum" ELSE "passed")
    ELSE (IF NumLe(c.maximum, val) THEN "maximum" ELSE "passed")

\* the maximum check: the error it raises, or passed
CheckMaximum(c, val) ==
    IF c.maximum.t = "none" THEN "passed"
    ELSE IF c.exclusive_maximum
    THEN (IF NumLe(c.maximum, val) THEN "exclusive_maximum" ELSE "passed")
    ELSE (IF NumLt(c.maximum, val) THEN "maximum" ELSE "passed")

\* the multiple_of check, for a float multiple_of whose reciprocal is exact
CheckMultipleOf(c, val) ==
    IF c.multiple_of.t = "none" THEN "passed"
    ELSE IF ~IsMultiple(val, c.multiple_of) THEN "multiple_of" ELSE "passed"

NumericNew(c, x) ==
    LET new == NativeNew(c, x)
        val == new.v
    IN  IF new.exc \in {"TypeError", "ValueError"} THEN TypeSystemError(c, "type")
        ELSE IF new.exc # "none" THEN Raised(new.exc, None)
        ELSE IF ~IsFinite(val) THEN TypeSystemError(c, "finite")
        ELSE IF CheckMinimum(c, val) # "passed"
        THEN TypeSystemError(c, CheckMinimum(c, val))
        ELSE IF CheckMaximum(c, val) # "passed"
        THEN TypeSystemError(c, CheckMaximum(c, val))
        ELSE IF CheckMultipleOf(c, val) # "passed"
        THEN TypeSystemError(c, "multiple_of")
        ELSE Returned(val)

(***************************************************************************)
(* Boolean.__new__                                                         *)
(***************************************************************************)
BooleanNew(c, x) ==
    IF x.t = "str" THEN
        IF Lower(x.v) \in {<<"t", "r", "u", "e">>, <<"o", "n">>, <<"1">>}
        THEN Returned(PyBool(TRUE))
        ELSE IF Lower(x.v) \in {<<"f", "a", "l", "s", "e">>, <<"o", "f", "f">>, <<"0">>, <<>>}
        THEN Returned(PyBool(FALSE))
        ELSE TypeSystemError(c, "type")
    ELSE Returned(PyBool(CASE x.t = "bool" -> x.v
                           [] x.t = "int" -> x.v # 0
                           [] x.t = "float" -> x.fk # "finite" \/ x.num # 0
                           [] x.t = "none" -> FALSE
                           [] x.t \in {"list", "dict"} -> x.v # <<>>))

\* child_schema(item) for a scalar class
New(c, x) ==
    CASE c.kind = "String" -> StringNew(c, x)
      [] c.kind \in {"Integer", "Number"} -> NumericNew(c, x)
      [] c.kind = "Boolean" -> BooleanNew(c, x)

(***************************************************************************)
(* Object.__init__                                                         *)
(***************************************************************************)
\* properties is the sequence of [name, type] in the order of the dict
Object ==
    [kind |-> "Object", description |-> None, properties |-> <<>>,
     required |-> <<>>, additional_properties |-> TRUE, own |-> {}]

PropertyNames(c) == {c.properties[i].name : i \in DOMAIN c.properties}

\* dict.__init__(self, x): a mapping or an empty iterable, else ValueError or
\* TypeError
DictInit(x) ==
    IF x.t = "dict" THEN Ok(x.v)
    ELSE IF x.t \in {"str", "list"} /\ x.v = <<>> THEN Ok(<<>>)
    ELSE Fail

\* the state of the loops: self, the errors collected, and the exception
\* that left the loop
LoopState(self, errors, exc) == [self |-> self, errors |-> errors, exc |-> exc]

\* PropertyMissing that looks at required before it looks for a default
PropertyMissingRequiredFirst(c, st, key, child_schema) ==
    IF key \in Range(c.required)
    THEN [st EXCEPT !.errors = DictSet(st.errors, key, Format(c, "required").v)]
    ELSE IF HasAttr(child_schema, "default")
    THEN [st EXCEPT !.self = DictSet(st.self, key, child_schema.default)]
    ELSE st

\* the except KeyError branch: the key is not in value
PropertyMissing(c, st, key, child_schema) ==
    IF HasAttr(child_schema, "default")
    THEN [st EXCEPT !.self = DictSet(st.self, key, child_schema.default)]
    ELSE IF key \in Range(c.required)
    THEN [st EXCEPT !.errors = DictSet(st.errors, key, Format(c, "required").v)]
    ELSE st

\* PropertyCoerced that validates an item and keeps the raw item
PropertyCoercedKeepRaw(st, key, new) ==
    IF new.exc = "none" THEN st
    ELSE IF new.exc = "TypeSystemError"
    THEN [st EXCEPT !.errors = DictSet(st.errors, key, new.v)]
    ELSE [st EXCEPT !.exc = new.exc]

\* the else branch, new being the outcome of child_schema(item): the coerced
\* item is stored, a TypeSystemError is kept under the key, any other
\* exception leaves the loop
PropertyCoerced(st, key, new) ==
    IF new.exc = "none"
    THEN [st EXCEPT !.self = DictSet(st.self, key, new.v)]
    ELSE IF new.exc = "TypeSystemError"
    THEN [st EXCEPT !.errors = DictSet(st.errors, key, new.v)]
    ELSE [st EXCEPT !.exc = new.exc]

\* PropertyStep that records nothing once an error has been recorded
PropertyStepFailFast(c, st, key, child_schema) ==
    IF DOMAIN st.errors # {} THEN st
    ELSE IF key \notin DOMAIN st.self THEN PropertyMissing(c, st, key, child_schema)
    ELSE PropertyCoerced(st, key, New(child_schema, st.self[key]))

\* one pass of the loop over properties.  An item of a scalar class is never
\* an instance of the class, so it is always coerced.
PropertyStep(c, st, key, child_schema) ==
    IF key \notin DOMAIN st.self THEN PropertyMissing(c, st, key, child_schema)
    ELSE PropertyCoerced(st, key, New(child_schema, st.self[key]))

\* the loop over properties from the i-th on
RECURSIVE PropertiesLoop(_, _, _)
PropertiesLoop(c, st, i) ==
    IF i > Len(c.properties) \/ st.exc # "none" THEN st
    ELSE PropertiesLoop(c,
            PropertyStep(c, st, c.properties[i].name, c.properties[i].type), i + 1)

\* AdditionalErrors that reports one offending key only
AdditionalErrorsFirstOnly(c, st) ==
    LET extra == DOMAIN st.self \ PropertyNames(c)
        first == CHOOSE k \in extra : TRUE
    IN  IF c.additional_properties \/ extra = {} THEN st.errors
        ELSE DictSet(st.errors, first, Format(c, "additional_properties").v)

\* the errors after the two additional_properties blocks: when additional
\* properties are allowed every key of value is in self already (value is
\* self) and nothing is copied; when they are not, every key that is not a
\* declared property gets an error
AdditionalErrors(c, st) ==
    IF c.additional_properties THEN st.errors
    ELSE [k \in DOMAIN st.errors \cup (DOMAIN st.self \ PropertyNames(c)) |->
            IF k \in PropertyNames(c) THEN st.errors[k]
            ELSE Format(c, "additional_properties").v]

\* raise TypeSystemError(errors) if there are errors
ObjectRaise(st, errors) ==
    IF DOMAIN errors # {} THEN Raised("TypeSystemError", PyDict(errors))
    ELSE Returned(PyDict(st.self))

\* the end of Object.__init__, st being the state after the loop
ObjectFinish(c, st) ==
    IF st.exc # "none" THEN Raised(st.exc, None)
    ELSE ObjectRaise(st, AdditionalErrors(c, st))

\* Object.__init__ after super().__init__ has filled self
ObjectValidate(c, self) ==
    IF \E key \in DOMAIN self : key.t # "str"
    THEN TypeSystemError(c, "invalid_key")
    ELSE ObjectFinish(c, PropertiesLoop(c, LoopState(self, <<>>, "none"), 1))

\* Object.__init__: SuperType.__init__ first runs dict.__init__ and then
\* looks for the description; when dict.__init__ fails on an argument that has
\* a __dict__, self stays empty and is validated
ObjectInit(c, x) ==
    IF ~DictInit(x).ok THEN
        IF x.t = "object" THEN ObjectValidate(c, <<>>)
        ELSE TypeSystemError(c, "type")
    ELSE IF c.description.t = "none" THEN Raised("MissingDescriptionError", None)
    ELSE ObjectValidate(c, DictInit(x).v)

(***************************************************************************)
(* Array.__init__                                                          *)
(***************************************************************************)
\* items is None, one type or a list of types
NoItems == None
ItemsType(c) == [t |-> "type", v |-> c]
ItemsList(cs) == [t |-> "list", v |-> cs]

Array ==
    [kind |-> "Array", description |-> None, items |-> NoItems,
     additional_items |-> FALSE, min_items |-> PyInt(0), max_items |-> None,
     unique_items |-> FALSE, own |-> {}]

\* list(x): the items of a list, the keys of a dict, the characters of a
\* string; TypeError for what is not iterable.  The keys of a dict are taken
\* in some order.
ListOf(x) ==
    CASE x.t = "list" -> Ok(x.v)
      [] x.t = "str" -> Ok([i \in DOMAIN x.v |-> PyStr(<<x.v[i]>>)])
      [] x.t = "dict" ->
            Ok(CHOOSE s \in [1..Cardinality(DOMAIN x.v) -> DOMAIN x.v] :
                    Range(s) = DOMAIN x.v)
      [] OTHER -> Fail

\* hash(x) does not raise
Hashable(x) == x.t \in {"none", "bool", "int", "float", "str"}

IsNumber(x) == x.t \in {"bool", "int"} \/ (x.t = "float" /\ x.fk = "finite")

\* a == b for hashable values
PyEq(a, b) ==
    IF IsNumber(a) /\ IsNumber(b) THEN NumLe(a, b) /\ NumLe(b, a)
    ELSE IF a.t = "str" /\ b.t = "str" THEN a.v = b.v
    ELSE IF a.t = "float" /\ b.t = "float" THEN a.fk = "inf" /\ b.fk = "inf" /\ a.num = b.num
    ELSE a.t = "none" /\ b.t = "none"

\* item in seen_items
InSeen(item, seen) == \E j \in DOMAIN seen : PyEq(seen[j], item)

\* the check of the number of items against a list of more than one type
PositionalCheck(c, val) ==
    IF c.items.t = "list" /\ Len(c.items.v) > 1 THEN
        IF Len(val) < Len(c.items.v) THEN "min_items"
        ELSE IF Len(val) > Len(c.items.v) /\ ~c.additional_items THEN "max_items"
        ELSE "passed"
    ELSE "passed"

\* the check of the number of items against min_items and max_items
LengthCheck(c, val) ==
    IF Len(val) < c.min_items.v THEN "min_items"
    ELSE IF c.max_items.t # "none" /\ Len(val) > c.max_items.v THEN "max_items"
    ELSE "passed"

\* the item at pos (from 0) has a type
HasItemType(c, pos) ==
    IF c.items.t = "list" THEN pos < Len(c.items.v) ELSE c.items.t = "type"

\* self.items[pos] or self.items
ItemType(c, pos) == IF c.items.t = "list" THEN c.items.v[pos + 1] ELSE c.items.v

\* the item at pos after its type, if it has one, was applied
ItemNew(c, pos, item) ==
    IF HasItemType(c, pos) THEN New(ItemType(c, pos), item) ELSE Returned(item)

ArrayState(self, seen, errors, exc) ==
    [self |-> self, seen |-> seen, errors |-> errors, exc |-> exc]

\* the unique_items block and self.append(item): hashing an unhashable item
\* for the test against seen_items is a TypeError
ArrayAppend(c, st, pos, item) ==
    IF c.unique_items THEN
        IF ~Hashable(item) THEN [st EXCEPT !.exc = "TypeError"]
        ELSE IF InSeen(item, st.seen)
        THEN [st EXCEPT !.errors =
                  DictSet(st.errors, PyInt(pos), Format(c, "unique_items").v)]
        ELSE [st EXCEPT !.seen = Append(st.seen, item), !.self = Append(st.self, item)]
    ELSE [st EXCEPT !.self = Append(st.self, item)]

\* one pass of the loop over the items, new being the outcome of the item's
\* type: a TypeSystemError is kept under pos, any other exception leaves the
\* loop
ArrayStep(c, st, pos, new) ==
    IF new.exc = "TypeSystemError"
    THEN [st EXCEPT !.errors = DictSet(st.errors, PyInt(pos), new.v)]
    ELSE IF new.exc # "none" THEN [st EXCEPT !.exc = new.exc]
    ELSE ArrayAppend(c, st, pos, new.v)

\* the loop over the items from pos on
RECURSIVE ArrayLoop(_, _, _, _)
ArrayLoop(c, val, st, pos) ==
    IF pos >= Len(val) \/ st.exc # "none" THEN st
    ELSE ArrayLoop(c, val, ArrayStep(c, st, pos, ItemNew(c, pos, val[pos + 1])), pos + 1)

\* the end of Array.__init__, st being the state after the loop
ArrayFinish(st) ==
    IF st.exc # "none" THEN Raised(st.exc, None)
    ELSE IF DOMAIN st.errors # {} THEN Raised("TypeSystemError", PyDict(st.errors))
    ELSE Returned(PyList(st.self))

\* Array.__init__ once value = list(*args) is made
ArrayValidate(c, val) ==
    IF PositionalCheck(c, val) # "passed"
    THEN TypeSystemError(c, PositionalCheck(c, val))
    ELSE IF LengthCheck(c, val) # "passed"
    THEN TypeSystemError(c, LengthCheck(c, val))
    ELSE ArrayFinish(ArrayLoop(c, val, ArrayState(<<>>, <<>>, <<>>, "none"), 0))

ArrayInit(c, x) ==
    IF x.t = "str" \/ ~ListOf(x).ok THEN TypeSystemError(c, "type")
    ELSE ArrayValidate(c, ListOf(x).v)

(***************************************************************************)
(* The calls of Integer and Number classes that are checked.               *)
(***************************************************************************)
\* keyword arguments: the attributes of vals that are not None and the flags
\* that are set
Kwargs(vals, flags) ==
    LET given == {a \in DOMAIN vals : vals[a].t # "none"}
    IN  [a \in given \cup flags |-> IF a \in given THEN vals[a] ELSE TRUE]

BoundChoices ==
    {None} \cup {PyInt(n) : n \in 0..MaxBound} \cup {PyInt(120), PyFloat(15, 1)}

MultipleOfChoices == {None, PyInt(2), PyFloat(5, 1)}

NumericClasses ==
    {Subclass(base,
              Kwargs([description |-> Text("description"), minimum |-> lo,
                      maximum |-> hi, multiple_of |-> m], flags)) :
        base \in {Integer, Number}, lo \in BoundChoices, hi \in BoundChoices,
        flags \in SUBSET {"exclusive_minimum", "exclusive_maximum"},
        m \in MultipleOfChoices}

NumericStrings ==
    {<<"4", "5">>, <<"2", "0", "0">>, <<"1">>, <<"1", ".", "5">>, <<"x">>, <<>>,
     <<" ", "2", " ">>, <<"n", "a", "n">>, <<"-", "1">>, <<"1", "2", "0">>,
     <<"1", "2", "1">>}

NumericValues ==
    {PyStr(v) : v \in NumericStrings}
    \cup {PyInt(n) : n \in -1..MaxInt} \cup {PyInt(120), PyInt(121)}
    \cup {PyFloat(15, 1), PyFloat(25, 1), PyFloat(-5, 1), PyNaN, PyInf(1)}
    \cup {PyBool(TRUE), None, PyList(<<>>)}

InitNumeric ==
    /\ op = "call"
    /\ cls \in NumericClasses
    /\ allowed_types = PyList(<<>>)
    /\ value \in NumericValues
    /\ result = Pending
    /\ resolver = None
    /\ frames = <<>>
    /\ logic = None
    /\ threads = <<>>

IntegerNew ==
    /\ op = "call"
    /\ cls.kind = "Integer"
    /\ op' = "Integer"
    /\ result' = NumericNew(cls, value)
    /\ UNCHANGED <<cls, allowed_types, value, resolver, frames, logic, threads>>

NumberNew ==
    /\ op = "call"
    /\ cls.kind = "Number"
    /\ op' = "Number"
    /\ result' = NumericNew(cls, value)
    /\ UNCHANGED <<cls, allowed_types, value, resolver, frames, logic, threads>>

NextNumeric == IntegerNew \/ NumberNew

SpecNumeric == InitNumeric /\ [][NextNumeric]_vars

(***************************************************************************)
(* Integer and Number: the claims.                                         *)
(***************************************************************************)
\* the class has run on a raw value that parses to a finite number
NumericParsed ==
    /\ op \in {"Integer", "Number"}
    /\ NativeNew(cls, value).exc = "none"
    /\ IsFinite(NativeNew(cls, value).v)

ParsedNumber == NativeNew(cls, value).v

AboveMinimum ==
    \/ cls.minimum.t = "none"
    \/ IF cls.exclusive_minimum THEN NumLt(cls.minimum, ParsedNumber)
       ELSE NumLe(cls.minimum, ParsedNumber)

BelowMaximum ==
    \/ cls.maximum.t = "none"
    \/ IF cls.exclusive_maximum THEN NumLt(ParsedNumber, cls.maximum)
       ELSE NumLe(ParsedNumber, cls.maximum)

BoundMessages ==
    {NumericErrors[code] :
        code \in {"minimum", "exclusive_minimum", "maximum", "exclusive_maximum"}}

BoundError == result.exc = "TypeSystemError" /\ result.v.fmt \in BoundMessages

\* result is TypeSystemError with the template fmt filled with arg
IsError(fmt, arg) ==
    /\ result.exc = "TypeSystemError"
    /\ result.v.t = "msg"
    /\ result.v.fmt = fmt
    /\ result.v.arg = arg

\* integer('age', minimum=1, maximum=120)
Age ==
    integer([description |-> Text("description"), minimum |-> PyInt(1),
             maximum |-> PyInt(120)])

\* C10: a parsed finite value passes the bound checks of an Integer or Number
\* class exactly when minimum <= value <= maximum, strictly on a side whose
\* exclusive flag is set; a violation is raised with the message of the
\* violated bound, filled with that bound.  Integer(minimum=1, maximum=120)
\* turns "45" into 45 and rejects "200" with "Must be less than or equal to
\* 120."
C10_BoundsInclusiveUnlessExclusive ==
    /\ NumericParsed =>
        /\ ~BoundError <=> (AboveMinimum /\ BelowMaximum)
        /\ ~AboveMinimum =>
                IsError(IF cls.exclusive_minimum
                        THEN "Must be greater than {minimum}."
                        ELSE "Must be greater than or equal to {minimum}.",
                        cls.minimum)
        /\ (AboveMinimum /\ ~BelowMaximum) =>
                IsError(IF cls.exclusive_maximum
                        THEN "Must be less than {maximum}."
                        ELSE "Must be less than or equal to {maximum}.",
                        cls.maximum)
    /\ (op = "Integer" /\ cls = Age /\ value = PyStr(<<"4", "5">>))
        => (result.exc = "none" /\ result.v = PyInt(45))
    /\ (op = "Integer" /\ cls = Age /\ value = PyStr(<<"2", "0", "0">>))
        => IsError("Must be less than or equal to {maximum}.", PyInt(120))

\* Age has rejected "200"
C10_Witness ==
    /\ op = "Integer"
    /\ cls = Age
    /\ value = PyStr(<<"2", "0", "0">>)
    /\ IsError("Must be less than or equal to {maximum}.", PyInt(120))

(***************************************************************************)
(* The calls of Object classes that are checked: the classes of            *)
(* test_types.py (FooObject, NoAddtPropsObject, RequiredPropsObject) and   *)
(* their variations.                                                       *)
(***************************************************************************)
Property(name, type) == [name |-> Text(name), type |-> type]

FooTypes ==
    {string([description |-> Text("foo"), min_length |-> PyInt(2)]),
     string([description |-> Text("foo"), min_length |-> PyInt(2),
             default |-> Text("zz")])}

BarTypes ==
    {integer([description |-> Text("an int")]),
     integer([description |-> Text("an int"), default |-> PyInt(7)])}

PropertyLists ==
    {<<>>}
    \cup {<<Property("foo", f)>> : f \in FooTypes}
    \cup {<<Property("bar", b)>> : b \in BarTypes}
    \cup {<<Property("foo", f), Property("bar", b)>> : f \in FooTypes, b \in BarTypes}

RequiredLists == {<<>>, <<Text("foo")>>, <<Text("bar")>>, <<Text("foo"), Text("bar")>>}

ObjectClasses ==
    {Subclass(Object, [description |-> d, properties |-> p, required |-> r,
                       additional_properties |-> a]) :
        d \in {None, Text("o")}, p \in PropertyLists, r \in RequiredLists,
        a \in BOOLEAN}

ItemValues == {PyStr(<<"f">>), PyStr(<<"3">>), PyStr(<<"b", "a", "r">>), PyInt(12)}

\* the mappings: foo and bar with any item or absent, the undeclared cat and
\* the key 1, which is not a string
Mappings ==
    {[k \in ks |-> IF k.t = "str" /\ k.v \in {<<"foo">>, <<"bar">>}
                   THEN items[k.v[1]] ELSE PyInt(12)] :
        ks \in SUBSET {Text("foo"), Text("bar"), Text("cat"), PyInt(1)},
        items \in [{"foo", "bar"} -> ItemValues]}

\* an instance of a class with a __dict__
PyObject == [t |-> "object", v |-> <<>>]

ObjectValues ==
    {PyDict(d) : d \in Mappings} \cup {PyStr(<<"1", "2">>), PyStr(<<>>), None, PyObject}

InitObject ==
    /\ op = "call"
    /\ cls \in ObjectClasses
    /\ allowed_types = PyList(<<>>)
    /\ value \in ObjectValues
    /\ result = Pending
    /\ resolver = None
    /\ frames = <<>>
    /\ logic = None
    /\ threads = <<>>

ObjectNew ==
    /\ op = "call"
    /\ cls.kind = "Object"
    /\ op' = "Object"
    /\ result' = ObjectInit(cls, value)
    /\ UNCHANGED <<cls, allowed_types, value, resolver, frames, logic, threads>>

NextObject == ObjectNew

SpecObject == InitObject /\ [][NextObject]_vars

(***************************************************************************)
(* Object validation: what the call of a described Object class with a     *)
(* mapping has to produce, stated from the class and the input alone.      *)
(***************************************************************************)
ObjectCalled == op = "Object" /\ cls.description.t # "none" /\ value.t = "dict"
StringKeys == \A k \in DOMAIN value.v : k.t = "str"

Declared == PropertyNames(cls)
TypeOf(k) == cls.properties[CHOOSE i \in DOMAIN cls.properties : cls.properties[i].name = k].type
Present(k) == k \in DOMAIN value.v

MissingRequired ==
    {k \in Declared : /\ ~Present(k)
                      /\ k \in Range(cls.required)
                      /\ ~HasAttr(TypeOf(k), "default")}
FailedCoercion ==
    {k \in Declared : Present(k) /\ New(TypeOf(k), value.v[k]).exc = "TypeSystemError"}
Undeclared == DOMAIN value.v \ Declared
NotAllowed == IF cls.additional_properties THEN {} ELSE Undeclared

Aggregate == result.exc = "TypeSystemError" /\ result.v.t = "dict"
ErrorKeys == DOMAIN result.v.v
Succeeded == result.exc = "none"

RequiredMessage == Msg("This field is required.", None)

\* properties {bar: Integer}, required [bar]
RequiredBar ==
    Subclass(Object,
        [description |-> Text("o"),
         properties |-> <<Property("bar", integer([description |-> Text("an int")]))>>,
         required |-> <<Text("bar")>>,
         additional_properties |-> TRUE])

\* C4: for a declared property that is missing from a mapping with string
\* keys: with a default on the property's type the key gets no error and the
\* result holds the default, required or not; else, when the key is required,
\* the error mapping holds 'This field is required.' under the key; else the
\* key is in neither the error mapping nor the result.  Properties
\* {bar: Integer} with required [bar] on {} raise {bar: 'This field is
\* required.'}.
C4_MissingProperty ==
    /\ (ObjectCalled /\ StringKeys) =>
          \A k \in Declared \ DOMAIN value.v :
              IF HasAttr(TypeOf(k), "default")
              THEN /\ Aggregate => k \notin ErrorKeys
                   /\ Succeeded => /\ k \in DOMAIN result.v.v
                                   /\ result.v.v[k] = TypeOf(k).default
              ELSE IF k \in Range(cls.required)
              THEN /\ Aggregate
                   /\ k \in ErrorKeys
                   /\ result.v.v[k] = RequiredMessage
              ELSE /\ Aggregate => k \notin ErrorKeys
                   /\ Succeeded => k \notin DOMAIN result.v.v
    /\ (op = "Object" /\ cls = RequiredBar /\ value = PyDict(<<>>)) =>
          /\ result.exc = "TypeSystemError"
          /\ result.v = PyDict([k \in {Text("bar")} |-> RequiredMessage])

\* a successful call that filled in the default of a missing required property
C4_Witness ==
    /\ ObjectCalled /\ Succeeded
    /\ \E k \in Declared \ DOMAIN value.v :
          /\ HasAttr(TypeOf(k), "default")
          /\ k \in Range(cls.required)
          /\ result.v.v[k] = TypeOf(k).default

AdditionalMessage == Msg("Additional properties are not allowed.", None)

\* the statement of C5 as written, for mappings with string keys: with
\* additional_properties false, a mapping with a key outside properties
\* raises the aggregate error whose mapping has exactly the offending keys and
\* no other key
C5_OnlyOffendingKeys ==
    (ObjectCalled /\ StringKeys /\ ~cls.additional_properties /\ Undeclared # {}) =>
        Aggregate /\ ErrorKeys = Undeclared

\* C5: with additional_properties false, a mapping with string keys that has
\* a key outside properties raises the aggregate error; the keys that carry
\* 'Additional properties are not allowed.' are exactly the offending keys,
\* and any other key of the error mapping is a declared property that is
\* missing and required or that failed coercion.
C5_OffendingKeysReported ==
    (ObjectCalled /\ StringKeys /\ ~cls.additional_properties /\ Undeclared # {}) =>
        /\ Aggregate
        /\ {k \in ErrorKeys : result.v.v[k] = AdditionalMessage} = Undeclared
        /\ ErrorKeys \ Undeclared = MissingRequired \cup FailedCoercion

\* a call with two offending keys and an error of a declared property
C5_Witness ==
    /\ ObjectCalled /\ StringKeys /\ ~cls.additional_properties
    /\ Cardinality(Undeclared) >= 2
    /\ Aggregate
    /\ ErrorKeys \ Undeclared # {}

\* C6: the result of a successful call holds, for every declared property
\* that is present, the coerced value; with additional_properties true every
\* undeclared input key with its value as given; and no key besides the input
\* keys and the missing properties that have a default.
C6_ResultOfSuccess ==
    (ObjectCalled /\ Succeeded) =>
        /\ result.v.t = "dict"
        /\ \A k \in Declared \cap DOMAIN value.v :
              /\ k \in DOMAIN result.v.v
              /\ New(TypeOf(k), value.v[k]).exc = "none"
              /\ result.v.v[k] = New(TypeOf(k), value.v[k]).v
        /\ cls.additional_properties =>
              \A k \in Undeclared : k \in DOMAIN result.v.v /\ result.v.v[k] = value.v[k]
        /\ DOMAIN result.v.v =
              DOMAIN value.v
              \cup {k \in Declared : ~Present(k) /\ HasAttr(TypeOf(k), "default")}

\* a successful call that coerced a declared property to another value and
\* kept an undeclared key
C6_Witness ==
    /\ ObjectCalled /\ Succeeded
    /\ \E k \in Declared \cap DOMAIN value.v : result.v.v[k].t # value.v[k].t
    /\ Undeclared # {}

(***************************************************************************)
(* The calls of Array classes that are checked: the classes of             *)
(* test_types.py (TestArray) and their variations.                         *)
(***************************************************************************)
\* string('c', max_length=1) and integer('i')
ItemTypes ==
    {string([description |-> Text("c"), max_length |-> PyInt(1)]),
     integer([description |-> Text("i")])}

ItemsChoices ==
    {NoItems}
    \cup {ItemsType(t) : t \in ItemTypes}
    \cup {ItemsList(ts) : ts \in SeqsUpTo(ItemTypes, MaxTypes) \ {<<>>}}

ArrayClasses ==
    {Subclass(Array, [description |-> Text("a"), items |-> i, additional_items |-> a,
                      min_items |-> lo, max_items |-> hi, unique_items |-> u]) :
        i \in ItemsChoices, a \in BOOLEAN, u \in BOOLEAN,
        lo \in {PyInt(0), PyInt(2)}, hi \in {None, PyInt(2)}}

Elements == {PyStr(<<"a">>), PyStr(<<"b", "b">>), PyInt(1), PyList(<<PyInt(2)>>)}

ArrayValues ==
    {PyList(s) : s \in SeqsUpTo(Elements, MaxItems)}
    \cup {PyStr(<<"a", "b">>), PyInt(3), None}

InitArray ==
    /\ op = "call"
    /\ cls \in ArrayClasses
    /\ allowed_types = PyList(<<>>)
    /\ value \in ArrayValues
    /\ result = Pending
    /\ resolver = None
    /\ frames = <<>>
    /\ logic = None
    /\ threads = <<>>

ArrayNew ==
    /\ op = "call"
    /\ cls.kind = "Array"
    /\ op' = "Array"
    /\ result' = ArrayInit(cls, value)
    /\ UNCHANGED <<cls, allowed_types, value, resolver, frames, logic, threads>>

NextArray == ArrayNew

SpecArray == InitArray /\ [][NextArray]_vars

(***************************************************************************)
(* Array validation: what the call of an Array class with a list has to    *)
(* produce, stated from the class and the input alone.                     *)
(***************************************************************************)
ArrayCalled == op = "Array" /\ value.t = "list"

\* the checks of the number of items passed
LoopReached ==
    /\ PositionalCheck(cls, value.v) = "passed"
    /\ LengthCheck(cls, value.v) = "passed"

\* the i-th element (from 1) after its item type was applied
Coerced(i) == ItemNew(cls, i - 1, value.v[i])
FailsCoercion(i) == Coerced(i).exc = "TypeSystemError"

\* a == b for any two values
RECURSIVE SameValue(_, _)
SameValue(a, b) ==
    IF a.t = "list" /\ b.t = "list"
    THEN Len(a.v) = Len(b.v) /\ \A i \in DOMAIN a.v : SameValue(a.v[i], b.v[i])
    ELSE IF a.t = "list" \/ b.t = "list" THEN FALSE
    ELSE PyEq(a, b)

\* the i-th element equals an earlier element that was accepted
RECURSIVE Duplicate(_)
Duplicate(i) ==
    /\ cls.unique_items
    /\ Coerced(i).exc = "none"
    /\ \E j \in 1..(i - 1) :
          /\ Coerced(j).exc = "none"
          /\ ~Duplicate(j)
          /\ SameValue(Coerced(j).v, Coerced(i).v)

FailedIndices == {i \in DOMAIN value.v : FailsCoercion(i) \/ Duplicate(i)}
Index(i) == PyInt(i - 1)

\* array(items=string(max_length=1))
CharArray ==
    Subclass(Array,
        [description |-> Text("a"),
         items |-> ItemsType(string([description |-> Text("c"), max_length |-> PyInt(1)])),
         additional_items |-> FALSE, min_items |-> PyInt(0), max_items |-> None,
         unique_items |-> FALSE])

\* C7: the call of an Array class with a list whose number of items is
\* accepted attempts every element: it succeeds when no element fails
\* coercion or is a duplicate, and otherwise raises the aggregate error whose
\* mapping is keyed by exactly the indices of these elements.  A list of
\* String(max_length=1) on ['a', 'bb'] raises {1: 'Must have no more than 1
\* characters.'}.
C7_ErrorKeysAreFailedIndices ==
    /\ (ArrayCalled /\ LoopReached) =>
          IF FailedIndices = {} THEN Succeeded
          ELSE Aggregate /\ ErrorKeys = {Index(i) : i \in FailedIndices}
    /\ (op = "Array" /\ cls = CharArray
            /\ value = PyList(<<PyStr(<<"a">>), PyStr(<<"b", "b">>)>>)) =>
          /\ result.exc = "TypeSystemError"
          /\ result.v = PyDict([k \in {PyInt(1)} |->
                Msg("Must have no more than {max_length} characters.", PyInt(1))])

\* C8: with a list of types as items, whatever its length, a list with fewer
\* elements than types raises 'Not enough items.', a list with more elements
\* than types raises 'Too many items.' unless additional_items is true, and
\* then a successful call returns the elements beyond the types as given.
C8_PositionalLength ==
    (ArrayCalled /\ cls.items.t = "list") =>
        /\ Len(value.v) < Len(cls.items.v) => IsError("Not enough items.", None)
        /\ (Len(value.v) > Len(cls.items.v) /\ ~cls.additional_items) =>
              IsError("Too many items.", None)
        /\ (Len(value.v) > Len(cls.items.v) /\ cls.additional_items /\ Succeeded) =>
              \A i \in (Len(cls.items.v) + 1)..Len(value.v) : result.v.v[i] = value.v[i]

UniqueMessage == Msg("This item is not unique.", None)

Reported(i) ==
    /\ Aggregate
    /\ Index(i) \in ErrorKeys
    /\ result.v.v[Index(i)] = UniqueMessage

\* C9: in a list whose number of items is accepted, index i is reported with
\* 'This item is not unique.' iff unique_items is true and the coerced i-th
\* element equals the coerced value of an earlier accepted element; with
\* unique_items false a list without coercion failures is accepted.
C9_DuplicatesReported ==
    (ArrayCalled /\ LoopReached) =>
        /\ \A i \in DOMAIN value.v : Reported(i) <=> Duplicate(i)
        /\ (~cls.unique_items /\ \A i \in DOMAIN value.v : ~FailsCoercion(i)) => Succeeded

(***************************************************************************)
(* The calls of String classes that are checked: the classes of            *)
(* test_types.py (TestString) and their variations.                        *)
(***************************************************************************)
StringKwargs ==
    {Kwargs([description |-> Text("s"), min_length |-> lo, max_length |-> hi,
             pattern |-> p, format |-> f], {}) :
        lo \in {None, PyInt(1), PyInt(2)}, hi \in {None, PyInt(2)},
        p \in {None, PyStr(<<"a">>)}, f \in {None, Text("email"), Text("time")}}

StringClasses ==
    {Subclass(String, k) : k \in StringKwargs}
    \cup {Subclass(String, k @@ [trim_whitespace |-> FALSE]) : k \in StringKwargs}

StringAlphabet == {" ", "a", "@", "1"}

TimeStrings ==
    {<<"1", ":", "2", ":", "3">>,
     <<" ", "1", ":", "2", ":", "3", " ">>,
     <<"1", "2", ":", "3", "0", ":", "0", "0">>,
     <<"1", ":", "2", ":", "3", "4", "5">>,
     <<"2", "4", ":", "0", ":", "0">>,
     <<"1", ":", "2", ":", "6", "0">>,
     <<"a", ":", "2", ":", "3">>}

StringValues ==
    {PyStr(v) : v \in SeqsUpTo(StringAlphabet, MaxStr) \cup TimeStrings}
    \cup {PyInt(12), None}

InitString ==
    /\ op = "call"
    /\ cls \in StringClasses
    /\ allowed_types = PyList(<<>>)
    /\ value \in StringValues
    /\ result = Pending
    /\ resolver = None
    /\ frames = <<>>
    /\ logic = None
    /\ threads = <<>>

CallString ==
    /\ op = "call"
    /\ cls.kind = "String"
    /\ op' = "String"
    /\ result' = StringNew(cls, value)
    /\ UNCHANGED <<cls, allowed_types, value, resolver, frames, logic, threads>>

NextString == CallString

SpecString == InitString /\ [][NextString]_vars

\* the calls of the scalar classes together
InitScalar == InitNumeric \/ InitString

NextScalar == IntegerNew \/ NumberNew \/ CallString

SpecScalar == InitScalar /\ [][NextScalar]_vars

(***************************************************************************)
(* The scalar classes: the claims.                                         *)
(***************************************************************************)
NumericCalled == op \in {"Integer", "Number"}

StringCalled == op = "String"

\* the raw value is a float that is NaN or an infinity
NonFinite == value.t = "float" /\ value.fk # "finite"

\* the native type cannot be built from the raw value
NotANumber == NativeNew(cls, value).exc # "none"

NotAMultiple ==
    cls.multiple_of.t # "none" /\ ~IsMultiple(ParsedNumber, cls.multiple_of)

\* the string the checks of a String class see
Trimmed == IF cls.trim_whitespace THEN Strip(StrOf(value)) ELSE StrOf(value)

TooShort == cls.min_length.t # "none" /\ Len(Trimmed) < cls.min_length.v

TooLong == cls.max_length.t # "none" /\ Len(Trimmed) > cls.max_length.v

PatternFails == cls.pattern.t # "none" /\ ~Search(cls.pattern.v, Trimmed)

LengthAndPatternPass == ~TooShort /\ ~TooLong /\ ~PatternFails

EmailFails == cls.format = Text("email") /\ "@" \notin Range(Trimmed)

TimeFails == cls.format = Text("time") /\ Strptime(Trimmed).exc # "none"

\* C11: a call of an Integer, Number or String class that fails raises one
\* error, that of the first violated check in the order type, finite,
\* minimum, maximum, multiple_of for Integer and Number and, on the trimmed
\* string, min_length or blank, max_length, pattern, format for String; a
\* value below minimum that is no multiple of multiple_of raises the minimum
\* error.  A raw value no check rejects is returned.
C11_FirstViolatedCheck ==
    /\ (NumericCalled /\ NotANumber) =>
            \/ IsError("Must be a valid number.", None)
            \/ NonFinite /\ IsError("Must be a finite number.", None)
    /\ (NumericCalled /\ ~NotANumber /\ ~IsFinite(ParsedNumber)) =>
            IsError("Must be a finite number.", None)
    /\ (NumericParsed /\ ~AboveMinimum) =>
            IsError(IF cls.exclusive_minimum
                    THEN "Must be greater than {minimum}."
                    ELSE "Must be greater than or equal to {minimum}.",
                    cls.minimum)
    /\ (NumericParsed /\ AboveMinimum /\ ~BelowMaximum) =>
            IsError(IF cls.exclusive_maximum
                    THEN "Must be less than {maximum}."
                    ELSE "Must be less than or equal to {maximum}.",
                    cls.maximum)
    /\ (NumericParsed /\ AboveMinimum /\ BelowMaximum /\ NotAMultiple) =>
            IsError("Must be a multiple of {multiple_of}.", cls.multiple_of)
    /\ (NumericParsed /\ AboveMinimum /\ BelowMaximum /\ ~NotAMultiple) =>
            (result.exc = "none" /\ result.v = ParsedNumber)
    /\ (StringCalled /\ TooShort) =>
            IF cls.min_length.v = 1 THEN IsError("Must not be blank.", None)
            ELSE IsError("Must have at least {min_length} characters.",
                         cls.min_length)
    /\ (StringCalled /\ ~TooShort /\ TooLong) =>
            IsError("Must have no more than {max_length} characters.",
                    cls.max_length)
    /\ (StringCalled /\ ~TooShort /\ ~TooLong /\ PatternFails) =>
            IsError("Must match the pattern /{pattern}/.", cls.pattern)
    /\ (StringCalled /\ LengthAndPatternPass /\ EmailFails) =>
            IsError("Not a valid email address.", None)
    /\ (StringCalled /\ LengthAndPatternPass /\ TimeFails) =>
            (result.exc = "TypeSystemError" /\ result.v = Strptime(Trimmed).v)
    /\ (StringCalled /\ LengthAndPatternPass /\ ~EmailFails /\ ~TimeFails) =>
            result.exc = "none"

\* a String class with trimming on has been called on a str
TrimCalled == StringCalled /\ cls.trim_whitespace /\ value.t = "str"

BooleanClasses == {boolean([description |-> Text("b")])}

BooleanValues ==
    {PyStr(v) : v \in {<<"t", "r", "u", "e">>, <<"O", "N">>, <<"o", "f", "f">>,
                       <<"0">>, <<>>, <<"x">>}}
    \cup {PyBool(TRUE), PyBool(FALSE), PyInt(0), PyInt(2), None}

InitBoolean ==
    /\ op = "call"
    /\ cls \in BooleanClasses
    /\ allowed_types = PyList(<<>>)
    /\ value \in BooleanValues
    /\ result = Pending
    /\ resolver = None
    /\ frames = <<>>
    /\ logic = None
    /\ threads = <<>>

CallBoolean ==
    /\ op = "call"
    /\ cls.kind = "Boolean"
    /\ op' = "Boolean"
    /\ result' = BooleanNew(cls, value)
    /\ UNCHANGED <<cls, allowed_types, value, resolver, frames, logic, threads>>

\* the value the first call returned is handed to the class again
CallAgain ==
    /\ op \in {"String", "Integer", "Number", "Boolean"}
    /\ result.exc = "none"
    /\ op' = "again"
    /\ value' = result.v
    /\ result' = New(cls, result.v)
    /\ UNCHANGED <<cls, allowed_types, resolver, frames, logic, threads>>

InitTwice == InitScalar \/ InitBoolean

NextTwice == IntegerNew \/ NumberNew \/ CallString \/ CallBoolean \/ CallAgain

SpecTwice == InitTwice /\ [][NextTwice]_vars

\* C13: a value a type has accepted is accepted again by the same type and
\* returned unchanged: T(T(x)) succeeds and equals T(x), whatever the kind,
\* the constraints and the format of T.
C13_Idempotent ==
    op = "again" =>
        /\ result.exc = "none"
        /\ result.v.t = value.t
        /\ result.v = value

(***************************************************************************)
(* get_example of the scalar classes, and the example handed to the class. *)
(***************************************************************************)
\* cls.example: SuperType.example is None unless the class sets its own
Example(c) == IF "example" \in c.own THEN c.example ELSE None

\* the value get_example returns for a class without example
DefaultExample(c) ==
    CASE c.kind = "String" -> PyStr(<<"s", "t", "r", "i", "n", "g">>)
      [] c.kind = "Number" -> PyFloat(314, 2)
      [] c.kind = "Integer" -> PyInt(1)
      [] c.kind = "Boolean" -> PyBool(TRUE)

get_example(c) == IF Example(c).t # "none" THEN Example(c) ELSE DefaultExample(c)

StringExamples ==
    {None, PyStr(<<"a">>), PyStr(<<"a", "b", "c">>), PyStr(<<"a", "@", "b">>),
     PyStr(<<" ", "a", "b">>)}

NumericExamples == {None, PyInt(1), PyInt(2), PyInt(3), PyFloat(15, 1)}

ExampleClasses ==
    {string(Kwargs([description |-> Text("s"), min_length |-> lo,
                    max_length |-> hi, format |-> f, example |-> e], {})) :
        lo \in {None, PyInt(2)}, hi \in {None, PyInt(2)},
        f \in {None, Text("email")}, e \in StringExamples}
    \cup
    {Subclass(base, Kwargs([description |-> Text("n"), minimum |-> lo,
                            maximum |-> hi, multiple_of |-> m, example |-> e], {})) :
        base \in {Integer, Number}, lo \in {None, PyInt(2)},
        hi \in {None, PyInt(2)}, m \in {None, PyInt(2)}, e \in NumericExamples}
    \cup
    {boolean(Kwargs([description |-> Text("b"), example |-> e], {})) :
        e \in {None, PyBool(TRUE), PyBool(FALSE)}}

InitExample ==
    /\ op = "call"
    /\ cls \in ExampleClasses
    /\ allowed_types = PyList(<<>>)
    /\ value = None
    /\ result = Pending
    /\ resolver = None
    /\ frames = <<>>
    /\ logic = None
    /\ threads = <<>>

GetExample ==
    /\ op = "call"
    /\ op' = "get_example"
    /\ result' = Returned(get_example(cls))
    /\ UNCHANGED <<cls, allowed_types, value, resolver, frames, logic, threads>>

\* the class is called on the example
ValidateExample ==
    /\ op = "get_example"
    /\ op' = "validated"
    /\ value' = result.v
    /\ result' = New(cls, result.v)
    /\ UNCHANGED <<cls, allowed_types, resolver, frames, logic, threads>>

NextExample == GetExample \/ ValidateExample

SpecExample == InitExample /\ [][NextExample]_vars

\* C14: a type with a declared example accepts the value get_example
\* returns and returns it unchanged; no type has a declared example that
\* violates its own constraints.
C14_ExampleRoundTrip ==
    (op = "validated" /\ "example" \in cls.own) =>
        /\ result.exc = "none"
        /\ PyEq(result.v, value)

(***************************************************************************)
(* Enum.__new__                                                            *)
(***************************************************************************)
Enum == [kind |-> "Enum", description |-> None, enum |-> PyList(<<>>), own |-> {}]

enum(kwargs) == Subclass(Enum, kwargs)

\* value not in cls.enum
EnumNew(c, x) ==
    IF ~InSeen(x, c.enum.v) THEN TypeSystemError(c, "invalid")
    ELSE Returned(x)

(***************************************************************************)
(* Classes of every kind that define no description, called on a value.    *)
(***************************************************************************)
Colors == PyList(<<PyStr(<<"r">>), PyStr(<<"g">>)>>)

UndescribedClasses ==
    {Subclass(String, Kwargs([min_length |-> lo, max_length |-> hi], {})) :
        lo \in {None, PyInt(1)}, hi \in {None, PyInt(2)}}
    \cup {Subclass(base, Kwargs([minimum |-> lo, maximum |-> hi], {})) :
            base \in {Integer, Number}, lo \in {None, PyInt(1)},
            hi \in {None, PyInt(2)}}
    \cup {Boolean}
    \cup {Subclass(Enum, [enum |-> Colors])}
    \cup {c \in ObjectClasses : c.description.t = "none"}
    \cup {Subclass(Array, Kwargs([items |-> i, max_items |-> hi], {})) :
            i \in {NoItems, ItemsType(Subclass(String, <<>>))},
            hi \in {None, PyInt(2)}}

EnumValues == {PyStr(<<"r">>), PyStr(<<"g">>), PyStr(<<"x">>), PyInt(1), None}

\* the values a class of the kind is called on
ValuesOf(kind) ==
    CASE kind = "String" -> StringValues
      [] kind \in {"Integer", "Number"} -> NumericValues
      [] kind = "Boolean" -> BooleanValues
      [] kind = "Enum" -> EnumValues
      [] kind = "Object" -> ObjectValues
      [] kind = "Array" -> ArrayValues

InitUndescribed ==
    /\ op = "call"
    /\ cls \in UndescribedClasses
    /\ allowed_types = PyList(<<>>)
    /\ value \in ValuesOf(cls.kind)
    /\ result = Pending
    /\ resolver = None
    /\ frames = <<>>
    /\ logic = None
    /\ threads = <<>>

CallEnum ==
    /\ op = "call"
    /\ cls.kind = "Enum"
    /\ op' = "Enum"
    /\ result' = EnumNew(cls, value)
    /\ UNCHANGED <<cls, allowed_types, value, resolver, frames, logic, threads>>

NextUndescribed ==
    \/ CallString
    \/ IntegerNew
    \/ NumberNew
    \/ CallBoolean
    \/ CallEnum
    \/ ObjectNew
    \/ ArrayNew

SpecUndescribed == InitUndescribed /\ [][NextUndescribed]_vars

\* C15: a class of any kind (String, Integer, Number, Boolean, Enum, Object,
\* Array) that defines no description never validates a value: calling it
\* raises MissingDescriptionError.
C15_UndescribedNeverValidates ==
    (op # "call" /\ cls.description.t = "none") =>
        result.exc = "MissingDescriptionError"

(***************************************************************************)
(* doctor/schema.py: SchemaRefResolver.  A URI is the document it names    *)
(* ("" for the schema the resolver was built for) and a JSON pointer ("" for*)
(* none); every document lies in the directory of the base URI.            *)
(***************************************************************************)
Uri(doc, frag) == [doc |-> doc, frag |-> frag]

\* 'file://' + schema_path + '/'
base_uri == Uri("", "")

\* a reference: '' (empty), '#pointer' (fragment) or 'doc#pointer' (file)
Ref(kind, doc, frag) == [kind |-> kind, doc |-> doc, frag |-> frag]

NoRef == Ref("none", "", "")

\* a node of a document: a dict with '$ref' or anything else
Plain(name) == [t |-> "node", ref |-> NoRef, name |-> name]

RefNode(ref) == [t |-> "$ref", ref |-> ref, name |-> ""]

\* urljoin(scope, ref): the empty reference is the scope itself, a fragment
\* replaces the pointer of the scope, a file name replaces document and pointer
urljoin(scope, ref) ==
    CASE ref.kind = "empty" -> scope
      [] ref.kind = "fragment" -> Uri(scope.doc, ref.frag)
      [] ref.kind = "file" -> Uri(ref.doc, ref.frag)

\* the URI as text: the base, the file name, '#' and the pointer
Render(uri) ==
    <<"file:///schema", "/">>
    \o (IF uri.doc = "" THEN <<>> ELSE <<uri.doc>>)
    \o (IF uri.frag = "" THEN <<>> ELSE <<"#", uri.frag>>)

\* F(x) with x evaluated once
Once(F(_), x) == CHOOSE y \in {F(z) : z \in {x}} : TRUE

\* the number of leading items all texts of the list share, k of them known
RECURSIVE PrefixLen(_, _)
PrefixLen(list, k) ==
    IF \A i \in DOMAIN list : Len(list[i]) > k /\ list[i][k + 1] = list[1][k + 1]
    THEN PrefixLen(list, k + 1)
    ELSE k

\* os.path.commonprefix of a non-empty list
commonprefix(list) == SubSeq(list[1], 1, PrefixLen(list, 0))

\* ' => '.join(list[i:])
RECURSIVE JoinFrom(_, _)
JoinFrom(list, i) ==
    IF i > Len(list) THEN <<>>
    ELSE IF i = Len(list) THEN list[i]
    ELSE list[i] \o <<" => ">> \o JoinFrom(list, i + 1)

Join(list) == JoinFrom(list, 1)

\* prefix[:-1] if prefix.endswith('/'), as the length that is cut off
CutOf(prefix) ==
    IF prefix # <<>> /\ prefix[Len(prefix)] = "/" THEN Len(prefix) - 1
    ELSE Len(prefix)

\* [scope[len(prefix):] for scope in stack]
StripPrefix(list, cut) ==
    SubSeq([i \in DOMAIN list |-> SubSeq(list[i], cut + 1, Len(list[i]))],
           1, Len(list))

StripCommon(list) == StripPrefix(list, Once(CutOf, commonprefix(list)))

FormatList(list) ==
    IF Len(list) > 1 THEN Once(Join, StripCommon(list)) ELSE Join(list)

Renders(stack) == SubSeq([i \in DOMAIN stack |-> Render(stack[i])], 1, Len(stack))

_format_stack(stack) == Once(FormatList, Renders(stack))

\* the files beside the schema: common.yaml with a plain node, a reference
\* to it and a reference to itself
Files ==
    [d \in {"common.yaml"} |->
        [f \in {"", "/k", "/l", "/m"} |->
            CASE f = "/l" -> RefNode(Ref("fragment", "", "/k"))
              [] f = "/m" -> RefNode(Ref("fragment", "", "/m"))
              [] OTHER -> Plain(f)]]

RefResolutionError(fmt, arg) == [ok |-> FALSE, v |-> Msg(fmt, arg)]

\* resolve_fragment(document, fragment)
resolve_fragment(document, fragment) ==
    IF fragment \in DOMAIN document THEN Ok(document[fragment])
    ELSE RefResolutionError("Unresolvable JSON pointer: %r", fragment)

\* the store after resolve_from_url(url): resolve_remote caches the file
StoreAfter(store, url) ==
    IF url.doc \notin DOMAIN store /\ url.doc \in DOMAIN Files
    THEN [d \in DOMAIN store \cup {url.doc} |->
            IF d \in DOMAIN store THEN store[d] ELSE Files[d]]
    ELSE store

\* resolve_from_url(url): the document from the store or from its file
resolve_from_url(store, url) ==
    IF url.doc \in DOMAIN StoreAfter(store, url)
    THEN resolve_fragment(StoreAfter(store, url)[url.doc], url.frag)
    ELSE RefResolutionError("[Errno 2] No such file or directory: {}", url.doc)

\* lines 50-61: the node at url, in the document passed or in the store
Resolved(store, url, document) ==
    IF document.t = "none" THEN resolve_from_url(store, url)
    ELSE resolve_fragment(document.v, url.frag)

\* lines 62-69: the SchemaError for a RefResolutionError
Unresolvable(error, stack) ==
    Raised("SchemaError",
           IF stack # <<>> THEN Msg("{} (from {})", <<error, _format_stack(stack)>>)
           ELSE error)

\* lines 74-80 with the repeated URI left out of the chain
CircularWithoutCurrent(stack, url) ==
    Raised("SchemaError",
           Msg("Circular reference in schema: {}", _format_stack(stack)))

\* lines 74-80
Circular(stack, url) ==
    Raised("SchemaError",
           Msg("Circular reference in schema: {}", _format_stack(stack \o <<url>>)))

\* url in self._scopes_stack, looking at the innermost scope only
OnStackTop(url, stack) == stack # <<>> /\ url = stack[Len(stack)]

\* url in self._scopes_stack
OnStack(url, stack) == \E i \in DOMAIN stack : stack[i] = url

push_scope(stack, scope) == Append(stack, scope)

\* pop_scope that leaves the stack as it is
pop_scope_nothing(stack) == stack

pop_scope(stack) == SubSeq(stack, 1, Len(stack) - 1)

resolution_scope(stack) == stack[Len(stack)]

Frame(ref, document) == [ref |-> ref, document |-> document]

\* the innermost call of resolve, its URL and what it finds there
Current == frames[Len(frames)]

Url == urljoin(resolution_scope(resolver._scopes_stack), Current.ref)

Found == Resolved(resolver.store, Url, Current.document)

\* a call leaves: the outermost one ends the request, an inner one hands
\* its outcome to the finally clause of its caller
Leave == IF Len(frames) = 1 THEN "done" ELSE "unwind"

\* resolve(ref, document) as one call: what it returns or raises with the
\* given store and scope stack
RECURSIVE resolve(_, _, _, _), ResolveAt(_, _, _, _)
resolve(store, stack, ref, document) ==
    CHOOSE outcome \in
        {ResolveAt(store, stack, url, Resolved(store, url, document)) :
            url \in {urljoin(resolution_scope(stack), ref)}} : TRUE

\* lines 62-87 for what was found at url
ResolveAt(store, stack, url, found) ==
    IF ~found.ok THEN Unresolvable(found.v, stack)
    ELSE IF found.v.t = "$ref" THEN
        IF OnStack(url, stack) THEN Circular(stack, url)
        ELSE CHOOSE outcome \in
                {resolve(stored, pushed, found.v.ref, None) :
                    stored \in {StoreAfter(store, url)},
                    pushed \in {push_scope(stack, url)}} : TRUE
    ELSE Returned(<<url, found.v>>)

(***************************************************************************)
(* The calls of SchemaRefResolver.resolve that are checked: a schema of    *)
(* three definitions and its root, each plain or a reference, as in        *)
(* test/schema/annotation.yaml (test_ref, invalid_ref_chain_1..3,          *)
(* circular_ref_chain_1..3, properties/auth).                              *)
(***************************************************************************)
Pointers == {"/a", "/b", "/c"}

NodeChoices ==
    {Plain("n")}
    \cup {RefNode(Ref("fragment", "", f)) : f \in Pointers \cup {"/x", ""}}
    \cup {RefNode(Ref("file", "common.yaml", "/l")),
          RefNode(Ref("file", "missing.yaml", "/k")),
          RefNode(Ref("empty", "", ""))}

RootChoices == {Plain("schema"), RefNode(Ref("fragment", "", "/a"))}

Schemas ==
    {[f \in Pointers \cup {""} |-> IF f = "" THEN root ELSE nodes[f]] :
        root \in RootChoices, nodes \in [Pointers -> NodeChoices]}

\* a document a caller passes to resolve
Dynamic ==
    [t |-> "dict",
     v |-> [f \in {"", "/a"} |->
                IF f = "" THEN Plain("dynamic")
                ELSE RefNode(Ref("fragment", "", "/b"))]]

Requests ==
    {Frame(Ref("fragment", "", f), None) : f \in {"/a", "/x", ""}}
    \cup {Frame(Ref("file", "common.yaml", f), None) : f \in {"/l", "/m"}}
    \cup {Frame(Ref("empty", "", ""), None),
          Frame(Ref("fragment", "", "/a"), Dynamic)}

InitResolve ==
    /\ op = "call"
    /\ cls = None
    /\ allowed_types = PyList(<<>>)
    /\ value = None
    /\ result = Pending
    /\ \E schema \in Schemas :
            resolver = [store |-> [d \in {""} |-> schema],
                        _scopes_stack |-> <<base_uri>>]
    /\ frames = <<>>
    /\ logic = None
    /\ threads = <<>>

\* resolver.resolve(ref, document) is called when no call is running
ResolveCall ==
    /\ op \in {"call", "done"}
    /\ \E request \in Requests :
        /\ value' = request
        /\ frames' = <<request>>
    /\ op' = "resolve"
    /\ result' = Pending
    /\ UNCHANGED <<cls, allowed_types, resolver, logic, threads>>

\* lines 50-69: nothing is found at the URL
ResolveUnresolvable ==
    /\ op = "resolve"
    /\ ~Found.ok
    /\ result' = Unresolvable(Found.v, resolver._scopes_stack)
    /\ resolver' = [resolver EXCEPT !.store = StoreAfter(@, Url)]
    /\ frames' = SubSeq(frames, 1, Len(frames) - 1)
    /\ op' = Leave
    /\ UNCHANGED <<cls, allowed_types, value, logic, threads>>

\* lines 71-80: a reference at a URL that is on the stack
ResolveCircular ==
    /\ op = "resolve"
    /\ Found.ok
    /\ Found.v.t = "$ref"
    /\ OnStack(Url, resolver._scopes_stack)
    /\ result' = Circular(resolver._scopes_stack, Url)
    /\ resolver' = [resolver EXCEPT !.store = StoreAfter(@, Url)]
    /\ frames' = SubSeq(frames, 1, Len(frames) - 1)
    /\ op' = Leave
    /\ UNCHANGED <<cls, allowed_types, value, logic, threads>>

\* lines 81-83: the URL is pushed and the reference resolved by a new call
ResolveFollow ==
    /\ op = "resolve"
    /\ Found.ok
    /\ Found.v.t = "$ref"
    /\ ~OnStack(Url, resolver._scopes_stack)
    /\ resolver' = [store |-> StoreAfter(resolver.store, Url),
                    _scopes_stack |-> push_scope(resolver._scopes_stack, Url)]
    /\ frames' = Append(frames, Frame(Found.v.ref, None))
    /\ UNCHANGED <<op, cls, allowed_types, value, result, logic, threads>>

\* lines 86-87: what is found is no reference
ResolveReturn ==
    /\ op = "resolve"
    /\ Found.ok
    /\ Found.v.t # "$ref"
    /\ result' = Returned(<<Url, Found.v>>)
    /\ resolver' = [resolver EXCEPT !.store = StoreAfter(@, Url)]
    /\ frames' = SubSeq(frames, 1, Len(frames) - 1)
    /\ op' = Leave
    /\ UNCHANGED <<cls, allowed_types, value, logic, threads>>

\* lines 84-85: the finally clause of the innermost call that waits; the
\* outcome of the call it made goes on to its caller
ResolveFinally ==
    /\ op = "unwind"
    /\ resolver' = [resolver EXCEPT !._scopes_stack = pop_scope(@)]
    /\ frames' = SubSeq(frames, 1, Len(frames) - 1)
    /\ op' = Leave
    /\ UNCHANGED <<cls, allowed_types, value, result, logic, threads>>

NextResolve ==
    \/ ResolveCall
    \/ ResolveUnresolvable
    \/ ResolveCircular
    \/ ResolveFollow
    \/ ResolveReturn
    \/ ResolveFinally

SpecResolve == InitResolve /\ [][NextResolve]_vars

\* a call that has started runs on: the interpreter executes one call at a
\* time and nothing in resolve waits
SpecResolveLive ==
    /\ SpecResolve
    /\ WF_vars(ResolveUnresolvable \/ ResolveCircular \/ ResolveFollow
               \/ ResolveReturn)
    /\ WF_vars(ResolveFinally)

(***************************************************************************)
(* SchemaRefResolver.resolve: the claims.                                  *)
(***************************************************************************)
\* the URIs of the chain of references that starts at url, up to the first
\* node that is no reference or cannot be found, and n URIs at most
RECURSIVE Chain(_, _, _)
Chain(url, document, n) ==
    IF n = 0 THEN <<>>
    ELSE IF Resolved(resolver.store, url, document).ok
            /\ Resolved(resolver.store, url, document).v.t = "$ref"
    THEN CHOOSE chain \in
            {<<url>> \o Chain(next, None, n - 1) :
                next \in {urljoin(url, Resolved(resolver.store, url, document).v.ref)}} :
            TRUE
    ELSE <<url>>

Requested == op \in {"resolve", "unwind", "done"}

RequestedChain == Chain(urljoin(base_uri, value.ref), value.document, MaxChain)

\* the chain never reaches a node that is no reference: it runs in a cycle
Endless == Len(RequestedChain) = MaxChain

LastUri == RequestedChain[Len(RequestedChain)]

\* the node the chain ends at, if it is found
LastNode ==
    Resolved(resolver.store, LastUri,
             IF Len(RequestedChain) = 1 THEN value.document ELSE None)

IsCircular == result.exc = "SchemaError" /\ result.v.fmt = "Circular reference in schema: {}"

\* the chain of the message is the base scope and the first k URIs of the
\* traversal, the last of which occurred before
ChainReported(k) ==
    /\ result.v.arg = _format_stack(<<base_uri>> \o SubSeq(RequestedChain, 1, k))
    /\ OnStack(RequestedChain[k], <<base_uri>> \o SubSeq(RequestedChain, 1, k - 1))

C16_Ends ==
    /\ Len(frames) <= MaxChain
    /\ op = "done" =>
        /\ result.exc \in {"none", "SchemaError"}
        /\ Endless =>
            /\ IsCircular
            /\ \E k \in 1..MaxChain : ChainReported(k)

\* C16: every call of resolve ends: it returns or raises SchemaError, and the
\* calls it makes of itself are bounded.  When the chain of references from
\* the requested one runs in a cycle, it raises SchemaError "Circular
\* reference in schema: ..." with the URIs in the order they were followed,
\* the repeated URI last.
C16_Terminates == []C16_Ends /\ ((op = "resolve") ~> (op = "done"))

\* the cycle /a -> /b -> /c -> /a has been reported
C16_Witness ==
    /\ op = "done"
    /\ Endless
    /\ IsCircular
    /\ result.v.arg = _format_stack(<<base_uri, Uri("", "/a"), Uri("", "/b"),
                                      Uri("", "/c"), Uri("", "/a")>>)

\* the calls of resolve that wait for the call they made
Waiting == IF op = "resolve" THEN Len(frames) - 1 ELSE Len(frames)

\* C17: while resolve runs no URI is on the scope stack twice.  A URI is on
\* the stack above the base scope only for a call that follows the reference
\* found at that URI; a reference at a URI that is on the stack raises
\* SchemaError, and what resolve returns is never a reference.
C17_NoUriTwice ==
    Requested =>
        /\ Distinct(resolver._scopes_stack)
        /\ Len(resolver._scopes_stack) = 1 + Waiting
        /\ \A i \in 2..Len(resolver._scopes_stack) :
                /\ resolver._scopes_stack[i] = RequestedChain[i - 1]
                /\ i - 1 < Len(RequestedChain)
        /\ (op = "done" /\ result.exc = "none") => result.v[2].t # "$ref"
        /\ (op = "done" /\ Endless) => IsCircular

\* a reference back to a URI two scopes down is being reported
C17_Witness ==
    /\ op = "unwind"
    /\ IsCircular
    /\ Len(resolver._scopes_stack) = 3
    /\ Endless

\* the store of a resolver that has resolved nothing yet
FreshStore == [d \in {""} |-> resolver.store[""]]

\* C18: when a call of resolve has returned or raised, the scope stack is
\* what it was before the call, and the outcome is that of the same call on
\* a resolver that has made no call before.
C18_StackRestored ==
    /\ op \in {"call", "done"} =>
        /\ resolver._scopes_stack = <<base_uri>>
        /\ frames = <<>>
        /\ logic = None
        /\ threads = <<>>
    /\ op = "done" =>
        result = resolve(FreshStore, <<base_uri>>, value.ref, value.document)

\* an unresolvable reference two references deep has been reported by a
\* resolver that has loaded common.yaml in an earlier call
C18_Witness ==
    /\ op = "done"
    /\ result.exc = "SchemaError"
    /\ ~IsCircular
    /\ Len(RequestedChain) = 3
    /\ "common.yaml" \in DOMAIN resolver.store
    /\ resolver._scopes_stack = <<base_uri>>

\* C19: when the chain of references from the requested one ends at a node
\* that is no reference, wherever it starts (the root of the document too),
\* resolve returns that node with the URI of that node and reports no
\* circular reference.
C19_AcyclicChainResolved ==
    (op = "done" /\ ~Endless /\ LastNode.ok) =>
        /\ result.exc = "none"
        /\ result.v = <<LastUri, LastNode.v>>

(***************************************************************************)
(* doctor/docs/base.py: resolve and resolve_of_type.  The node handed over *)
(* is a dict: its keys in the order keys() lists them (in Python 2 the     *)
(* order of the hash table, which is not the order the keys were written   *)
(* in), the alternatives of 'oneOf' and 'anyOf' and the string under       *)
(* 'default'.                                                              *)
(***************************************************************************)
OF_TYPES == {"anyOf", "oneOf"}

\* a string met where a node is looked for
Str(text) == [t |-> "str", ref |-> NoRef, name |-> text]

Node(keys, oneOf, anyOf) ==
    [t |-> "node", ref |-> NoRef, name |-> "node",
     keys |-> keys, oneOf |-> oneOf, anyOf |-> anyOf]

\* schema.keys()
Keys(schema) == IF "keys" \in DOMAIN schema THEN schema.keys ELSE <<>>

\* '#{0}/0'.format(of_type)
OfFragment ==
    [oneOf |-> "oneOf/0", anyOf |-> "anyOf/0", default |-> "default/0"]

\* the 'type' entry of the definitions of the schema and of an inline node
DefinitionTypes ==
    [a |-> "string", b |-> "integer", inline |-> "boolean", schema |-> "object"]

\* what the JSON pointers used here find in a node that is passed as the
\* document: '' the node, 'oneOf/0' and 'anyOf/0' the first item of the
\* list, 'default/0' the first character of the string, 'type' the type
Document(schema) ==
    [t |-> "dict",
     v |-> [f \in {""}
                \cup {OfFragment[Keys(schema)[i]] : i \in DOMAIN Keys(schema)}
                \cup (IF schema.name \in DOMAIN DefinitionTypes THEN {"type"}
                      ELSE {}) |->
            CASE f = "" -> schema
              [] f = "oneOf/0" -> schema.oneOf[1]
              [] f = "anyOf/0" -> schema.anyOf[1]
              [] f = "default/0" -> Str("x")
              [] f = "type" -> Str(DefinitionTypes[schema.name])]]

\* Schema.resolve: the resolved value without its URI
Schema_resolve(store, ref, document) ==
    CHOOSE outcome \in
        {IF found.exc = "none" THEN Returned(found.v[2]) ELSE found :
            found \in {resolve(store, <<base_uri>>, ref, document)}} : TRUE

\* resolve_of_type(annotation, schema)
resolve_of_type(store, schema) ==
    Schema_resolve(store, Ref("fragment", "", OfFragment[Keys(schema)[1]]),
                   Document(schema))

\* '=>'.join(fragment_stack[i:])
RECURSIVE JoinArrow(_, _)
JoinArrow(fragment_stack, i) ==
    IF i > Len(fragment_stack) THEN <<>>
    ELSE IF i = Len(fragment_stack) THEN <<fragment_stack[i]>>
    ELSE <<fragment_stack[i], "=>">> \o JoinArrow(fragment_stack, i + 1)

SphinxError(fragment, fragment_stack, error) ==
    Raised("SphinxError",
           Msg("Error resolving {}{} definition for {} {} schema: {}",
               <<fragment,
                 IF fragment_stack # <<>>
                 THEN <<" from ">> \o JoinArrow(fragment_stack, 1) ELSE <<>>,
                 "logic", "GET", error>>))

\* lines 416-423: the fragment resolved in the schema, any error wrapped
ResolveIn(store, fragment, schema, fragment_stack) ==
    CHOOSE outcome \in
        {IF found.exc = "none" THEN found
         ELSE SphinxError(fragment, fragment_stack, found.v) :
            found \in {Schema_resolve(store, fragment, Document(schema))}} : TRUE

\* base.resolve(fragment, schema, annotation, fragment_stack)
base_resolve(store, fragment, schema, fragment_stack) ==
    IF OF_TYPES \cap Range(Keys(schema)) # {}
    THEN CHOOSE outcome \in
            {IF first.exc = "none"
             THEN ResolveIn(store, fragment, first.v, fragment_stack)
             ELSE first :
                first \in {resolve_of_type(store, schema)}} : TRUE
    ELSE ResolveIn(store, fragment, schema, fragment_stack)

(***************************************************************************)
(* The calls of base.resolve that are checked: a schema with the           *)
(* definitions a and b, as in test_docs_base.py, and nodes with 'oneOf',   *)
(* 'anyOf' and 'default' in every order.                                   *)
(***************************************************************************)
DocsSchema ==
    [f \in Pointers \cup {""} |->
        CASE f = "" -> Plain("schema")
          [] f = "/a" -> Plain("a")
          [] f = "/b" -> Plain("b")
          [] f = "/c" -> RefNode(Ref("fragment", "", "/c"))]

Alternatives ==
    {RefNode(Ref("fragment", "", f)) : f \in {"/a", "/b", "/c", "/x"}}
    \cup {Plain("inline")}

AlternativeLists ==
    {list \in [1..2 -> Alternatives] : list[1] # list[2]}

KeyLists ==
    {keys \in SeqsUpTo({"oneOf", "anyOf", "default"}, 3) : Distinct(keys)}

DocsNodes ==
    {Node(keys, oneOf, <<RefNode(Ref("fragment", "", "/b")), Plain("inline")>>) :
        keys \in KeyLists, oneOf \in AlternativeLists}

\* 'type', '#type' and '#missing'
Fragments ==
    {Ref("file", "type", ""), Ref("fragment", "", "type"),
     Ref("fragment", "", "missing")}

FragmentStacks == {<<>>, <<"items">>, <<"properties", "items">>}

InitDocs ==
    /\ op = "call"
    /\ cls = None
    /\ allowed_types = PyList(<<>>)
    /\ value \in [fragment : Fragments, schema : DocsNodes,
                  fragment_stack : FragmentStacks]
    /\ result = Pending
    /\ resolver = [store |-> [d \in {""} |-> DocsSchema],
                   _scopes_stack |-> <<base_uri>>]
    /\ frames = <<>>
    /\ logic = None
    /\ threads = <<>>

\* every reference of these nodes stays in the schema, so the store and,
\* after the call, the scope stack are what they were
BaseResolve ==
    /\ op = "call"
    /\ result' = base_resolve(resolver.store, value.fragment, value.schema,
                              value.fragment_stack)
    /\ op' = "done"
    /\ UNCHANGED <<cls, allowed_types, value, resolver, frames, logic, threads>>

NextDocs == BaseResolve

SpecDocs == InitDocs /\ [][NextDocs]_vars

(***************************************************************************)
(* base.resolve: the claims.                                               *)
(***************************************************************************)
Compositions == OF_TYPES \cap Range(Keys(value.schema))

\* the first listed alternative of the composition, its references followed
FirstAlternative(composition) ==
    IF value.schema[composition][1].t = "$ref"
    THEN Schema_resolve(resolver.store, value.schema[composition][1].ref, None)
    ELSE Returned(value.schema[composition][1])

\* the outcome is that of resolving the fragment inside the first
\* alternative: an error if the alternative cannot be resolved
InFirstAlternative(composition) ==
    IF FirstAlternative(composition).exc = "none"
    THEN /\ result.exc \in {"none", "SphinxError"}
         /\ result = ResolveIn(resolver.store, value.fragment,
                               FirstAlternative(composition).v,
                               value.fragment_stack)
    ELSE result.exc \notin {"none", "pending"}

\* C20: when the node handed to base.resolve has a 'oneOf' or 'anyOf' key,
\* with or without other keys, the fragment is resolved inside the first
\* listed alternative of that composition, and a failure there is the
\* outcome: no later alternative is looked at.
C20_FirstAlternative ==
    (op = "done" /\ Compositions # {}) =>
        \E composition \in Compositions : InFirstAlternative(composition)

(***************************************************************************)
(* doctor/parsers.py: map_param_names and parse_form_and_query_params.     *)
(* The request parameters are the items of a dict in the order it lists    *)
(* them; the signature parameters are names with the class that annotates  *)
(* each.                                                                   *)
(***************************************************************************)
Item(key, val) == [key |-> key, val |-> val]

\* the keys of a list of items, key in d, d[key]
KeysOf(items) == {items[i].key : i \in DOMAIN items}

Get(items, key) == items[CHOOSE i \in DOMAIN items : items[i].key = key].val

\* an annotation that is no doctor type: the builtin int
BuiltinInt == [kind |-> "builtin", own |-> {}]

\* cls.native_type: the class attribute of the doctor types
NativeTypes ==
    [String |-> "str", Number |-> "float", Integer |-> "int",
     Boolean |-> "bool", Enum |-> "str", Object |-> "dict", Array |-> "list"]

_native_type_to_json ==
    [list |-> "array", bool |-> "boolean", int |-> "integer",
     dict |-> "object", float |-> "number", str |-> "string"]

\* getattr(param.annotation, 'param_name', None)
ParamName(annotation) ==
    IF HasAttr(annotation, "param_name") THEN annotation.param_name ELSE None

\* map_param_names that falls back on the parameter's own name when the
\* declared name is not in the request
map_param_names_fallback(req_params, sig_params) ==
    PyDict([k \in {k \in KeysOf(sig_params) :
                    \/ k \in KeysOf(req_params)
                    \/ /\ ParamName(Get(sig_params, k)).t # "none"
                       /\ ParamName(Get(sig_params, k)).v[1] \in KeysOf(req_params)} |->
            IF /\ ParamName(Get(sig_params, k)).t # "none"
               /\ ParamName(Get(sig_params, k)).v[1] \in KeysOf(req_params)
            THEN Get(req_params, ParamName(Get(sig_params, k)).v[1])
            ELSE Get(req_params, k)])

\* key = k if param_name is None else param_name
KeyFor(sig_params, k) ==
    IF ParamName(Get(sig_params, k)).t = "none" THEN k
    ELSE ParamName(Get(sig_params, k)).v[1]

map_param_names(req_params, sig_params) ==
    PyDict([k \in {k \in KeysOf(sig_params) :
                    KeyFor(sig_params, k) \in KeysOf(req_params)} |->
            Get(req_params, KeyFor(sig_params, k))])

\* the state of the loop of parse_form_and_query_params: the two dicts and
\* the exception that ended it
ParamsState(errors, parsed_params, exc) ==
    [errors |-> errors, parsed_params |-> parsed_params, exc |-> exc]

\* json_type: the type of the annotation, and 'null' if it is nullable
JsonType(annotation) ==
    PyList(<<_native_type_to_json[NativeTypes[annotation.kind]]>>
           \o (IF annotation.nullable THEN <<"null">> ELSE <<>>))

\* lines 228-237 once the annotation has given its json_type
ParamParsed(st, param, parsed) ==
    CASE parsed.exc = "none" ->
            [st EXCEPT !.parsed_params = DictSet(@, param, parsed.v.value)]
      [] parsed.exc = "ParseError" ->
            [st EXCEPT !.errors = DictSet(@, param, parsed.v)]
      [] OTHER -> [st EXCEPT !.exc = parsed.exc]

\* one pass of the loop, lines 226-237
ParamStep(st, item, sig_params) ==
    IF item.key \notin KeysOf(sig_params) THEN st
    ELSE IF Get(sig_params, item.key).kind \notin DOMAIN NativeTypes
            \/ ~HasAttr(Get(sig_params, item.key), "nullable")
    THEN [st EXCEPT !.exc = "AttributeError"]
    ELSE ParamParsed(st, item.key,
                     parse_value(item.val, JsonType(Get(sig_params, item.key))))

\* the loop from item i on
RECURSIVE ParamsLoop(_, _, _, _)
ParamsLoop(st, req_params, sig_params, i) ==
    IF i > Len(req_params) \/ st.exc # "none" THEN st
    ELSE ParamsLoop(ParamStep(st, req_params[i], sig_params),
                    req_params, sig_params, i + 1)

\* lines 239-242
ParamsFinish(st) ==
    IF st.exc # "none" THEN Raised(st.exc, None)
    ELSE IF DOMAIN st.errors # {} THEN Raised("TypeSystemError", PyDict(st.errors))
    ELSE Returned(PyDict(st.parsed_params))

parse_form_and_query_params(req_params, sig_params) ==
    ParamsFinish(ParamsLoop(ParamsState(<<>>, <<>>, "none"),
                            req_params, sig_params, 1))

(***************************************************************************)
(* The calls of the two functions that are checked: the signature          *)
(* (age, lat, flag) with flag annotated by the builtin int, as in          *)
(* test_parsers.py, and requests of up to MaxParams parameters.            *)
(***************************************************************************)
\* the values nullable is declared with; "" for a class that declares none
NullableChoices == {"", "true", "false"}

WithNullable(kwargs, nullable) ==
    IF nullable = "" THEN kwargs
    ELSE [a \in DOMAIN kwargs \cup {"nullable"} |->
            IF a = "nullable" THEN nullable = "true" ELSE kwargs[a]]

AgeClasses ==
    {integer(WithNullable([description |-> Text("age")], nullable)) :
        nullable \in NullableChoices}

LatitudeClasses ==
    {number([description |-> Text("lat")]),
     number([description |-> Text("lat"), nullable |-> TRUE,
             param_name |-> Text("location.lat")]),
     number([description |-> Text("lat"), nullable |-> TRUE,
             param_name |-> Text("age")])}

Signatures ==
    {<<Item("age", age), Item("lat", lat)>> \o rest :
        age \in AgeClasses, lat \in LatitudeClasses,
        rest \in {<<>>, <<Item("flag", BuiltinInt)>>}}

RequestKeys == {"age", "lat", "location.lat", "flag"}

RequestValues == {PyStr(<<"2", "2">>), PyStr(<<"x">>), PyStr(<<>>), PyInt(5)}

RequestParams ==
    {req \in SeqsUpTo([key : RequestKeys, val : RequestValues], MaxParams) :
        \A i, j \in DOMAIN req : i # j => req[i].key # req[j].key}

InitParams ==
    /\ op = "call"
    /\ cls \in Signatures
    /\ allowed_types = PyList(<<>>)
    /\ value \in RequestParams
    /\ result = Pending
    /\ resolver = None
    /\ frames = <<>>
    /\ logic = None
    /\ threads = <<>>

MapParamNames ==
    /\ op = "call"
    /\ op' = "map_param_names"
    /\ result' = Returned(map_param_names(value, cls))
    /\ UNCHANGED <<cls, allowed_types, value, resolver, frames, logic, threads>>

ParseFormAndQueryParams ==
    /\ op = "call"
    /\ op' = "parse_form_and_query_params"
    /\ result' = parse_form_and_query_params(value, cls)
    /\ UNCHANGED <<cls, allowed_types, value, resolver, frames, logic, threads>>

NextParams == MapParamNames \/ ParseFormAndQueryParams

SpecParams == InitParams /\ [][NextParams]_vars

(***************************************************************************)
(* The parameter parsers: the claims.                                      *)
(***************************************************************************)
\* the request parameters that are named in the signature
Attempted == KeysOf(value) \cap KeysOf(cls)

\* the types a parameter may be parsed as: that of its annotation, and null
\* when the annotation declares nullable
TypesFor(param) ==
    PyList(<<_native_type_to_json[NativeTypes[Get(cls, param).kind]]>>
           \o (IF HasAttr(Get(cls, param), "nullable") /\ Get(cls, param).nullable
               THEN <<"null">> ELSE <<>>))

\* the attempted parameters that do not parse
FailedParams ==
    {param \in {k \in Attempted : Get(cls, k).kind \in DOMAIN NativeTypes} :
        parse_value(Get(value, param), TypesFor(param)).exc # "none"}

\* C21: parse_form_and_query_params attempts every request parameter that
\* the signature names and no other: when all of them parse it returns the
\* parsed values of exactly these, and otherwise it raises one TypeSystemError
\* whose errors have a key for every parameter that failed and for no other.
C21_AllFailuresReported ==
    op = "parse_form_and_query_params" =>
        IF FailedParams = {}
        THEN /\ result.exc = "none"
             /\ DOMAIN result.v.v = Attempted
        ELSE /\ result.exc = "TypeSystemError"
             /\ DOMAIN result.v.v = FailedParams

\* the name the annotation of a parameter declares for it in the request
Declared_name(p) == ParamName(Get(cls, p))

\* C22: map_param_names returns a dict of signature parameter names: a
\* parameter whose type declares a request name e has raw[e] when e is in
\* the request and is absent otherwise, also when the request has a key of
\* the parameter's own name; a parameter without declared name has raw[p]
\* when p is in the request and is absent otherwise; other request keys are
\* dropped.
C22_MappedByDeclaredName ==
    op = "map_param_names" =>
        /\ result.exc = "none"
        /\ DOMAIN result.v.v \subseteq KeysOf(cls)
        /\ \A p \in KeysOf(cls) :
            IF Declared_name(p).t # "none"
            THEN IF Declared_name(p).v[1] \in KeysOf(value)
                 THEN /\ p \in DOMAIN result.v.v
                      /\ result.v.v[p] = Get(value, Declared_name(p).v[1])
                 ELSE p \notin DOMAIN result.v.v
            ELSE IF p \in KeysOf(value)
                 THEN /\ p \in DOMAIN result.v.v
                      /\ result.v.v[p] = Get(value, p)
                 ELSE p \notin DOMAIN result.v.v

\* lat is to be read from 'location.lat', which the request lacks, while it
\* has 'lat', 'age' and 'flag', which is no parameter: only age is returned
C22_Witness ==
    /\ op = "map_param_names"
    /\ Declared_name("lat") = Text("location.lat")
    /\ KeysOf(value) = {"lat", "age", "flag"}
    /\ "flag" \notin KeysOf(cls)
    /\ DOMAIN result.v.v = {"age"}

(***************************************************************************)
(* doctor/flask.py: handle_http.  value is the request (method, mimetype,  *)
(* json body, values, the keyword arguments of the url rule, DEBUG and the *)
(* RAISE_RESPONSE_VALIDATION_ERRORS environment variable); logic is the    *)
(* logic function: its doctor attributes, what it does when it is called   *)
(* and the calls it has received; frames holds the locals of handle_http   *)
(* while the logic function runs.                                          *)
(***************************************************************************)
HTTP_METHODS_WITH_JSON_BODY == {"PATCH", "POST", "PUT"}

STATUS_CODE_MAP == [POST |-> 201, DELETE |-> 204]

\* STATUS_CODE_MAP.get(request.method, 200)
StatusCode(method) ==
    IF method \in DOMAIN STATUS_CODE_MAP THEN STATUS_CODE_MAP[method] ELSE 200

\* the base class of every exception class
ExceptionBases ==
    [DoctorError |-> "ValueError", ForbiddenError |-> "DoctorError",
     ImmutableError |-> "DoctorError", InternalError |-> "DoctorError",
     InvalidValueError |-> "DoctorError", NotFoundError |-> "DoctorError",
     ParseError |-> "DoctorError", SchemaValidationError |-> "DoctorError",
     TypeSystemError |-> "DoctorError", UnauthorizedError |-> "DoctorError",
     ValueError |-> "Exception", TypeError |-> "Exception",
     KeyError |-> "LookupError", LookupError |-> "Exception",
     OverflowError |-> "ArithmeticError", ArithmeticError |-> "Exception",
     AttributeError |-> "Exception", Exception |-> "Exception"]

\* isinstance(e, c) for an exception of class e
RECURSIVE IsInstance(_, _)
IsInstance(e, c) ==
    \/ e = c
    \/ e # "Exception" /\ IsInstance(ExceptionBases[e], c)

\* a dict kept as the list of its items
Dict(items) == [t |-> "dict", items |-> items]

\* an exception: its class, its message or detail, its errors attribute
Exc(e, detail, errors) == [exc |-> e, v |-> detail, errors |-> errors]

\* the parameters of the request that handle_http reads
RequestParamsOf(request) ==
    IF /\ request.mimetype = "application/json"
       /\ request.method \in HTTP_METHODS_WITH_JSON_BODY
    THEN request.json ELSE request.values

\* the items whose key is in names, in their order
Only(items, names) == SelectSeq(items, LAMBDA it : it.key \in names)

\* d[key] = val on a dict kept as the list of its items
ItemSet(items, key, val) ==
    IF key \in KeysOf(items)
    THEN [i \in DOMAIN items |->
            IF items[i].key = key THEN Item(key, val) ELSE items[i]]
    ELSE Append(items, Item(key, val))

\* d.update(**more)
RECURSIVE Update(_, _)
Update(items, more) ==
    IF more = <<>> THEN items
    ELSE Update(ItemSet(items, more[1].key, more[1].val), Tail(more))

\* params: the request parameters that are in _doctor_params.all, updated
\* with the keyword arguments
HttpParams(request, fn) ==
    Update(Only(RequestParamsOf(request), Range(fn._doctor_params.all)),
           request.kwargs)

\* the required parameters that are not in params
Missing(fn, params) ==
    SelectSeq(fn._doctor_params.required, LAMBDA r : r \notin KeysOf(params))

\* '{} {} required.'.format(missing, verb)
RequiredError(missing) ==
    IF Len(missing) = 1 THEN Msg("{} is required.", Text(missing[1]))
    ELSE Msg("{} are required.", PyList(missing))

\* the class that holds the native value of an instance: native_type
NativeValue(annotation, x) ==
    IF annotation.kind = "Boolean" /\ x.t # "bool" THEN PyBool(x.v # 0) ELSE x

\* the state of the validation loop: params, errors, and the exception that
\* left the loop
HttpState(params, errors, exc) ==
    [params |-> params, errors |-> errors, exc |-> exc]

\* params[name] = annotation.native_type(annotation(value)), new being the
\* outcome of annotation(value); only a TypeSystemError is caught
ParamCoerced(st, name, annotation, new) ==
    CASE new.exc = "none" ->
            [st EXCEPT !.params = ItemSet(@, name, NativeValue(annotation, new.v))]
      [] new.exc = "TypeSystemError" ->
            [st EXCEPT !.errors = ItemSet(@, name, new.v)]
      [] OTHER -> [st EXCEPT !.exc = Exc(new.exc, new.v, None)]

\* one pass of the loop over params.items()
ValidateStep(st, item, sig) ==
    IF item.key \notin KeysOf(sig.parameters)
    THEN [st EXCEPT !.exc = Exc("KeyError", Text(item.key), None)]
    ELSE Once(LAMBDA new :
                ParamCoerced(st, item.key, Get(sig.parameters, item.key), new),
              New(Get(sig.parameters, item.key), item.val))

\* the loop from the i-th item of params on
RECURSIVE ValidateLoop(_, _, _, _)
ValidateLoop(st, params, sig, i) ==
    IF i > Len(params) \/ st.exc.exc # "none" THEN st
    ELSE Once(LAMBDA next : ValidateLoop(next, params, sig, i + 1),
              ValidateStep(st, params[i], sig))

NoExc == Exc("none", None, None)

\* handle_http up to the call of the logic function: the exception raised
\* in the try block, or none and the validated params
BeforeLogic(request, fn) ==
    Once(LAMBDA params :
            IF Missing(fn, params) # <<>>
            THEN HttpState(params, <<>>,
                           Exc("InvalidValueError",
                               RequiredError(Missing(fn, params)), None))
            ELSE Once(LAMBDA st :
                        IF st.exc.exc # "none" THEN st
                        ELSE IF st.errors # <<>>
                        THEN [st EXCEPT !.exc = Exc("TypeSystemError",
                                                    Dict(st.errors), Dict(st.errors))]
                        ELSE st,
                      ValidateLoop(HttpState(params, <<>>, NoExc), params,
                                   fn._doctor_signature, 1)),
         HttpParams(request, fn))

\* the except clauses that follow the try block, e being the exception
ExceptClauses(request, fn, e) ==
    CASE IsInstance(e.exc, "InvalidValueError") \/ IsInstance(e.exc, "TypeSystemError") ->
            Raised("HTTP400Exception", [description |-> e, errors |-> e.errors])
      [] IsInstance(e.exc, "UnauthorizedError") ->
            Raised("HTTP401Exception", [description |-> e, errors |-> None])
      [] IsInstance(e.exc, "ForbiddenError") ->
            Raised("HTTP403Exception", [description |-> e, errors |-> None])
      [] IsInstance(e.exc, "NotFoundError") ->
            Raised("HTTP404Exception", [description |-> e, errors |-> None])
      [] IsInstance(e.exc, "ImmutableError") ->
            Raised("HTTP409Exception", [description |-> e, errors |-> None])
      [] OTHER ->
            IF request.DEBUG THEN Raised(e.exc, e.v)
            ELSE IF \E i \in DOMAIN fn._doctor_allowed_exceptions :
                        IsInstance(e.exc, fn._doctor_allowed_exceptions[i])
            THEN Raised(e.exc, e.v)
            ELSE Raised("HTTP500Exception",
                        [description |-> Text("Uncaught error in logic function"),
                         errors |-> None])

\* a Response: its content and its headers
Response(content, headers) == [t |-> "Response", v |-> content, headers |-> headers]

\* _response
ContentOf(response) == IF response.t = "Response" THEN response.v ELSE response

\* the response validation: the exception it raises, if any.  A response
\* that does not validate is logged, and raised only when the environment
\* asks for it.
ResponseValidation(request, fn, response) ==
    IF fn._doctor_signature.return_annotation.kind = "empty" THEN NoExc
    ELSE Once(LAMBDA new :
                IF new.exc = "none" THEN NoExc
                ELSE IF new.exc # "TypeSystemError" THEN Exc(new.exc, new.v, None)
                ELSE IF request.RAISE_RESPONSE_VALIDATION_ERRORS
                THEN Exc("TypeSystemError",
                         Msg("Response to {method} {path} {response} does not validate: {error}",
                             <<response, new.v>>), None)
                ELSE NoExc,
              New(fn._doctor_signature.return_annotation, ContentOf(response)))

\* what handle_http returns for a response
HttpReturn(request, response) ==
    IF response.t = "Response"
    THEN Returned(<<response.v, StatusCode(request.method), response.headers>>)
    ELSE Returned(<<response, StatusCode(request.method)>>)

\* handle_http from the return of the logic function on, outcome being what
\* the logic function returned or raised
AfterLogic(request, fn, outcome) ==
    IF outcome.exc # "none" THEN ExceptClauses(request, fn, outcome)
    ELSE Once(LAMBDA e :
                IF e.exc # "none" THEN ExceptClauses(request, fn, e)
                ELSE HttpReturn(request, outcome.v),
              ResponseValidation(request, fn, outcome.v))

(***************************************************************************)
(* The requests and logic functions that are checked.                      *)
(***************************************************************************)
ItemId == integer([description |-> Text("item id"), minimum |-> PyInt(1)])

IncludeDeleted ==
    boolean([description |-> Text("indicates if deleted items should be included.")])

Auth == string([description |-> Text("auth token")])

\* sig.empty
Empty == [kind |-> "empty", own |-> {}]

\* what the logic function does when it is called
LogicOutcomes ==
    {Exc("none", v, None) :
        v \in {PyInt(1), PyInt(0), Response(PyInt(1), Text("X-Header"))}}
    \cup {Exc(e, Text("message"), None) :
            e \in {"InvalidValueError", "ParseError", "SchemaValidationError",
                   "TypeSystemError", "UnauthorizedError", "ForbiddenError",
                   "NotFoundError", "ImmutableError", "TypeError", "KeyError"}}

AllowedExceptions == {<<>>, <<"TypeError">>, <<"LookupError">>}

\* def get_item(item_id: ItemId, include_deleted: IncludeDeleted=False),
\* to which a decorator has added the optional request parameter auth
get_item(return_annotation, allowed_exceptions, does) ==
    [_doctor_params |->
        [all |-> <<"item_id", "include_deleted", "auth">>,
         required |-> <<"item_id">>,
         optional |-> <<"include_deleted", "auth">>,
         logic |-> <<"item_id", "include_deleted">>],
     _doctor_signature |->
        [parameters |-> <<Item("item_id", ItemId),
                          Item("include_deleted", IncludeDeleted),
                          Item("auth", Auth)>>,
         return_annotation |-> return_annotation],
     _doctor_allowed_exceptions |-> allowed_exceptions,
     does |-> does,
     calls |-> <<>>]

LogicFunctions ==
    {get_item(r, a, d) : r \in {Empty, ItemId}, a \in AllowedExceptions,
                         d \in LogicOutcomes}

\* the dicts with some of the keys, each with one of its values
ItemsOf(keys, vals) ==
    {SelectSeq([i \in DOMAIN keys |-> Item(keys[i], f[i])],
               LAMBDA it : it.val.t # "absent") :
        f \in {g \in [DOMAIN keys -> UNION {vals[i] : i \in DOMAIN keys}] :
                    \A i \in DOMAIN keys : g[i] \in vals[i]}}

Absent == [t |-> "absent", v |-> 0]

\* request.values: the strings of the query and of the form
ValuesDicts ==
    ItemsOf(<<"item_id", "include_deleted", "auth", "other">>,
            <<{Absent, PyStr(<<"3">>), PyStr(<<"x">>)},
              {Absent, PyStr(<<"z", "z">>)},
              {Absent, PyStr(<<"t", "o", "k">>)},
              {Absent, PyStr(<<"1">>)}>>)

\* request.json: the body of a request of mimetype application/json
JsonDicts ==
    ItemsOf(<<"include_deleted", "item_id">>,
            <<{Absent, PyBool(TRUE)},
              {Absent, PyInt(3), PyInt(0), PyInf(1)}>>)

HttpRequests ==
    {[method |-> m, mimetype |-> "application/x-www-form-urlencoded",
      json |-> None, values |-> v, kwargs |-> k, DEBUG |-> d,
      RAISE_RESPONSE_VALIDATION_ERRORS |-> r] :
        m \in {"GET", "POST"}, v \in ValuesDicts,
        k \in {<<>>, <<Item("item_id", PyInt(7))>>},
        d \in BOOLEAN, r \in BOOLEAN}
    \cup
    {[method |-> m, mimetype |-> "application/json",
      json |-> j, values |-> v, kwargs |-> k, DEBUG |-> d,
      RAISE_RESPONSE_VALIDATION_ERRORS |-> r] :
        m \in {"GET", "POST"}, j \in JsonDicts,
        v \in {<<>>, <<Item("item_id", PyStr(<<"3">>))>>},
        k \in {<<>>, <<Item("item_id", PyInt(7))>>},
        d \in BOOLEAN, r \in BOOLEAN}

InitHttp ==
    /\ op = "call"
    /\ cls = None
    /\ allowed_types = None
    /\ value \in HttpRequests
    /\ result = Pending
    /\ resolver = None
    /\ frames = <<>>
    /\ logic \in LogicFunctions
    /\ threads = <<>>

\* handle_http up to the call of the logic function, or to the exception
\* that is raised before it
HandleHttp ==
    /\ op = "call"
    /\ \E before \in {BeforeLogic(value, logic)} :
           IF before.exc.exc # "none"
           THEN /\ op' = "handle_http"
                /\ result' = ExceptClauses(value, logic, before.exc)
                /\ frames' = frames
           ELSE /\ op' = "logic"
                /\ result' = result
                /\ frames' = <<[logic_params |->
                                  Only(before.params, Range(logic._doctor_params.logic)),
                                outcome |-> NoExc]>>
    /\ UNCHANGED <<cls, allowed_types, value, resolver, logic, threads>>

\* response = logic(*args, **logic_params)
Logic ==
    /\ op = "logic"
    /\ op' = "returned"
    /\ logic' = [logic EXCEPT !.calls = Append(@, frames[1].logic_params)]
    /\ frames' = <<[frames[1] EXCEPT !.outcome = logic.does]>>
    /\ UNCHANGED <<cls, allowed_types, value, result, resolver, threads>>

\* handle_http from the return of the logic function on
HandleHttpReturn ==
    /\ op = "returned"
    /\ op' = "handle_http"
    /\ result' = AfterLogic(value, logic, frames[1].outcome)
    /\ frames' = <<>>
    /\ UNCHANGED <<cls, allowed_types, value, resolver, logic, threads>>

NextHttp == HandleHttp \/ Logic \/ HandleHttpReturn

SpecHttp == InitHttp /\ [][NextHttp]_vars

(***************************************************************************)
(* handle_http: the claims.                                                *)
(***************************************************************************)
\* the annotation of a parameter
AnnotationOf(name) == Get(logic._doctor_signature.parameters, name)

\* the required parameters that the request does not supply
MissingParams ==
    {r \in Range(logic._doctor_params.required) :
        r \notin KeysOf(HttpParams(value, logic))}

\* the supplied parameters that do not validate against their annotation
FailingParams ==
    {k \in KeysOf(HttpParams(value, logic)) :
        New(AnnotationOf(k), Get(HttpParams(value, logic), k)).exc # "none"}

\* C23: handle_http calls the logic function at most once, and only when no
\* required parameter is missing and every supplied parameter validates
\* against its annotation; when a required parameter is missing or a
\* parameter does not validate, it raises HTTP400Exception, for a missing
\* parameter with the message that it is required and else with the errors
\* of every parameter that does not validate, and the logic function is not
\* called.
C23_LogicOnlyAfterValidation ==
    /\ Len(logic.calls) <= 1
    /\ logic.calls # <<>> => MissingParams = {} /\ FailingParams = {}
    /\ op = "handle_http" /\ (MissingParams # {} \/ FailingParams # {}) =>
        /\ logic.calls = <<>>
        /\ result.exc = "HTTP400Exception"
        /\ IF MissingParams # {}
           THEN /\ result.v.description.exc = "InvalidValueError"
                /\ result.v.description.v.fmt = "{} is required."
           ELSE /\ result.v.errors.t = "dict"
                /\ KeysOf(result.v.errors.items) = FailingParams

\* the HTTP exception of each error that the logic function may raise
HttpExceptionOf ==
    [InvalidValueError |-> "HTTP400Exception", ParseError |-> "HTTP400Exception",
     SchemaValidationError |-> "HTTP400Exception",
     TypeSystemError |-> "HTTP400Exception",
     UnauthorizedError |-> "HTTP401Exception",
     ForbiddenError |-> "HTTP403Exception", NotFoundError |-> "HTTP404Exception",
     ImmutableError |-> "HTTP409Exception"]

\* the exception is an instance of one of the allowed exceptions
IsAllowed(e) ==
    \E i \in DOMAIN logic._doctor_allowed_exceptions :
        IsInstance(e, logic._doctor_allowed_exceptions[i])

\* C24: an error that the logic function raises leaves handle_http as the
\* HTTP exception of its class: 400 for InvalidValueError, ParseError,
\* SchemaValidationError and TypeSystemError, 401 for UnauthorizedError, 403
\* for ForbiddenError, 404 for NotFoundError, 409 for ImmutableError; any
\* other exception is re-raised unchanged when DEBUG is set or it is one of
\* the allowed exceptions of the logic function, and is else the
\* HTTP500Exception 'Uncaught error in logic function'.
C24_LogicErrorsMapped ==
    op = "handle_http" /\ logic.calls # <<>> /\ logic.does.exc # "none" =>
        IF logic.does.exc \in DOMAIN HttpExceptionOf
        THEN /\ result.exc = HttpExceptionOf[logic.does.exc]
             /\ result.v.description = logic.does
        ELSE IF value.DEBUG \/ IsAllowed(logic.does.exc)
        THEN result = Raised(logic.does.exc, logic.does.v)
        ELSE /\ result.exc = "HTTP500Exception"
             /\ result.v.description = Text("Uncaught error in logic function")

(***************************************************************************)
(* doctor/routing.py: get_handler_name and create_routes.  value is the    *)
(* tuple of routes; a name is the sequence of its characters.              *)
(***************************************************************************)
UpperChar(c) ==
    IF c \in Range(LowerChars)
    THEN UpperChars[CHOOSE i \in DOMAIN LowerChars : LowerChars[i] = c]
    ELSE c

IsLetter(c) == c \in Range(LowerChars) \cup Range(UpperChars)

\* get_valid_class_name from the i-th character on: the words between
\* characters that are no word characters or are underscores, each in title
\* case (a letter is upper case after anything that is no letter and lower
\* case after a letter), joined
RECURSIVE ClassNameFrom(_, _, _)
ClassNameFrom(s, i, after_letter) ==
    IF i > Len(s) THEN <<>>
    ELSE IF IsLetter(s[i])
    THEN <<IF after_letter THEN LowerChar(s[i]) ELSE UpperChar(s[i])>>
         \o ClassNameFrom(s, i + 1, TRUE)
    ELSE IF IsDigit(s[i]) THEN <<s[i]>> \o ClassNameFrom(s, i + 1, FALSE)
    ELSE ClassNameFrom(s, i + 1, FALSE)

get_valid_class_name(s) == ClassNameFrom(s, 1, FALSE)

\* an HTTPMethod: the http method and the __name__ of its logic function
HTTPMethod(method, name) == [method |-> method, logic |-> name]

Route(route, methods, heading, handler_name) ==
    [route |-> route, methods |-> methods, heading |-> heading,
     handler_name |-> handler_name]

\* route.heading is truthy
HasHeading(route) == route.heading.t # "none" /\ route.heading.v # <<>>

get_handler_name(route, name) ==
    IF route.handler_name.t # "none" THEN route.handler_name.v
    ELSE IF \E i \in DOMAIN route.methods : Lower(route.methods[i].method) = <<"p", "o", "s", "t">>
    THEN (IF HasHeading(route) THEN get_valid_class_name(route.heading.v)
          ELSE get_valid_class_name(name)) \o <<"L", "i", "s", "t", "H", "a", "n", "d", "l", "e", "r">>
    ELSE (IF HasHeading(route) THEN get_valid_class_name(route.heading.v)
          ELSE get_valid_class_name(name)) \o <<"H", "a", "n", "d", "l", "e", "r">>

\* the state of the loop of create_routes
RoutesState(created_routes, all_handler_names) ==
    [created_routes |-> created_routes, all_handler_names |-> all_handler_names]

\* the name given to the handler of a route: the number of names given so
\* far is appended when the name is one of them
HandlerName(r, all_handler_names) ==
    LET handler_name == get_handler_name(r, r.methods[1].logic)
    IN  IF handler_name \in Range(all_handler_names)
        THEN handler_name \o IntToDigits(Len(all_handler_names))
        ELSE handler_name

\* the class made by type() and setattr: its name, its heading, and the
\* logic function behind each http method
Handler(r, handler_name) ==
    [__name__ |-> handler_name, _doctor_heading |-> r.heading,
     http |-> [m \in {r.methods[i].method : i \in DOMAIN r.methods} |->
                r.methods[CHOOSE i \in DOMAIN r.methods :
                    /\ r.methods[i].method = m
                    /\ \A j \in DOMAIN r.methods :
                        r.methods[j].method = m => j <= i].logic]]

\* one pass of the loop over routes
RouteStep(st, r) ==
    RoutesState(
        Append(st.created_routes,
               <<r.route, Handler(r, HandlerName(r, st.all_handler_names))>>),
        Append(st.all_handler_names, HandlerName(r, st.all_handler_names)))

RECURSIVE RoutesLoop(_, _, _)
RoutesLoop(st, routes, i) ==
    IF i > Len(routes) THEN st
    ELSE RoutesLoop(RouteStep(st, routes[i]), routes, i + 1)

create_routes(routes) ==
    Returned(RoutesLoop(RoutesState(<<>>, <<>>), routes, 1).created_routes)

\* the routes that are checked
HandlerNames == {None, PyStr(<<"F", "o", "o", "H", "a", "n", "d", "l", "e", "r", "1">>), PyStr(<<"F", "o", "o", "H", "a", "n", "d", "l", "e", "r", "2">>)}

Headings == {None, PyStr(<<"F", "o", "o">>)}

MethodTuples ==
    {<<HTTPMethod(<<"g", "e", "t">>, <<"g", "e", "t", "_", "f", "o", "o">>)>>,
     <<HTTPMethod(<<"P", "O", "S", "T">>, <<"f", "o", "o">>), HTTPMethod(<<"g", "e", "t">>, <<"g", "e", "t", "_", "f", "o", "o">>)>>}

Routes ==
    {Route(r, m, h, n) : r \in {"/a", "/b"}, m \in MethodTuples,
                         h \in Headings, n \in HandlerNames}

InitRoutes ==
    /\ op = "call"
    /\ cls = None
    /\ allowed_types = None
    /\ value \in UNION {[1..n -> Routes] : n \in 0..MaxRoutes}
    /\ result = Pending
    /\ resolver = None
    /\ frames = <<>>
    /\ logic = None
    /\ threads = <<>>

CreateRoutes ==
    /\ op = "call"
    /\ op' = "create_routes"
    /\ result' = create_routes(value)
    /\ UNCHANGED <<cls, allowed_types, value, resolver, frames, logic, threads>>

NextRoutes == CreateRoutes

SpecRoutes == InitRoutes /\ [][NextRoutes]_vars

(***************************************************************************)
(* create_routes: the claims.                                              *)
(***************************************************************************)
\* C25: create_routes returns one (route, handler) pair for every route, in
\* the order of the routes, and no two handlers of one call have the same
\* name, whatever handler names, headings and logic names the routes have.
C25_HandlerNamesDiffer ==
    op = "create_routes" =>
        /\ result.exc = "none"
        /\ Len(result.v) = Len(value)
        /\ \A i \in DOMAIN value : result.v[i][1] = value[i].route
        /\ \A i, j \in DOMAIN result.v :
            i # j => result.v[i][2].__name__ # result.v[j][2].__name__

(***************************************************************************)
(* doctor/schema.py: Schema.resolver read by several threads.  value is    *)
(* the Schema object, threads is where each thread is in the property and  *)
(* what its accesses have returned.  The interpreter may switch threads    *)
(* between any two attribute accesses, so each read and each write of      *)
(* self._resolver is a step.                                               *)
(***************************************************************************)
\* Schema.__init__; made counts the resolvers constructed so far
Schema(schema, schema_path) ==
    [schema |-> schema, _resolver |-> None, _schema_path |-> schema_path,
     made |-> 0]

\* a SchemaRefResolver instance: n tells the instances apart
SchemaRefResolver(n, uri, referrer) ==
    [t |-> "SchemaRefResolver", v |-> n, base_uri |-> uri, referrer |-> referrer]

\* the resolver the property constructs for the schema
NewResolver(self) ==
    IF self._schema_path.t # "none"
    THEN SchemaRefResolver(self.made + 1,
                           <<"file://", self._schema_path.v[1], "/">>, self.schema)
    ELSE SchemaRefResolver(self.made + 1, <<>>, self.schema)

\* a thread: where it is, the resolver it has constructed, what its accesses
\* have returned
Thread(pc, local, got) == [pc |-> pc, local |-> local, got |-> got]

InitLazy ==
    /\ op = "call"
    /\ cls = None
    /\ allowed_types = None
    /\ value \in {Schema(Plain("schema"), path) : path \in {None, Text("/schemas")}}
    /\ result = Pending
    /\ resolver = None
    /\ frames = <<>>
    /\ logic = None
    /\ threads \in {[i \in 1..n |-> Thread("idle", None, <<>>)] : n \in 1..MaxThreads}

\* a thread reads schema.resolver
ResolverAccess(i) ==
    /\ threads[i].pc = "idle"
    /\ Len(threads[i].got) < MaxAccesses
    /\ threads' = [threads EXCEPT ![i].pc = "check"]
    /\ UNCHANGED <<op, cls, allowed_types, value, result, resolver, frames, logic>>

\* if self._resolver is not None
ResolverCheck(i) ==
    /\ threads[i].pc = "check"
    /\ threads' = [threads EXCEPT
                    ![i].pc = IF value._resolver.t # "none" THEN "return"
                              ELSE "construct"]
    /\ UNCHANGED <<op, cls, allowed_types, value, result, resolver, frames, logic>>

\* SchemaRefResolver(...) or SchemaRefResolver.from_schema(...)
ResolverConstruct(i) ==
    /\ threads[i].pc = "construct"
    /\ threads' = [threads EXCEPT ![i].pc = "store", ![i].local = NewResolver(value)]
    /\ value' = [value EXCEPT !.made = @ + 1]
    /\ UNCHANGED <<op, cls, allowed_types, result, resolver, frames, logic>>

\* self._resolver = ...
ResolverStore(i) ==
    /\ threads[i].pc = "store"
    /\ value' = [value EXCEPT !._resolver = threads[i].local]
    /\ threads' = [threads EXCEPT ![i].pc = "return", ![i].local = None]
    /\ UNCHANGED <<op, cls, allowed_types, result, resolver, frames, logic>>

\* return self._resolver
ResolverReturn(i) ==
    /\ threads[i].pc = "return"
    /\ threads' = [threads EXCEPT ![i].pc = "idle",
                                  ![i].got = Append(@, value._resolver)]
    /\ UNCHANGED <<op, cls, allowed_types, value, result, resolver, frames, logic>>

NextLazy ==
    \/ \E i \in DOMAIN threads : ResolverAccess(i)
    \/ \E i \in DOMAIN threads : ResolverCheck(i)
    \/ \E i \in DOMAIN threads : ResolverConstruct(i)
    \/ \E i \in DOMAIN threads : ResolverStore(i)
    \/ \E i \in DOMAIN threads : ResolverReturn(i)

SpecLazy == InitLazy /\ [][NextLazy]_vars

(***************************************************************************)
(* Schema.resolver: the claims.                                            *)
(***************************************************************************)
\* the resolvers that accesses have returned
Obtained ==
    UNION {Range(threads[i].got) : i \in DOMAIN threads}

\* C26: the resolver of a Schema is made on the first access, and every
\* access returns this one instance, also when several threads access it
\* for the first time concurrently.
C26_OneResolver ==
    /\ Cardinality(Obtained) <= 1
    /\ value.made <= 1
    /\ value._resolver.t # "none" => Obtained \subseteq {value._resolver}

(***************************************************************************)
(* doctor/schema.py: SchemaRefResolver.resolve called by several threads   *)
(* on the resolver of one Schema.  resolver is the shared resolver, value  *)
(* is the resolver as it was before the calls, threads holds the request,  *)
(* the running calls and the outcome of each thread.  A thread runs one of *)
(* the steps of resolve at a time, and the interpreter may switch threads  *)
(* between two steps.                                                      *)
(***************************************************************************)
Caller(request) ==
    [op |-> "call", request |-> request, frames |-> <<>>, result |-> Pending]

\* the innermost call of a thread, its URL and what it finds there
CurrentOf(th) == th.frames[Len(th.frames)]

UrlOf(th) == urljoin(resolution_scope(resolver._scopes_stack), CurrentOf(th).ref)

FoundOf(th) == Resolved(resolver.store, UrlOf(th), CurrentOf(th).document)

\* the thread after the innermost call has left with an outcome
Left(th, outcome) ==
    [th EXCEPT !.result = outcome,
               !.frames = SubSeq(@, 1, Len(@) - 1),
               !.op = IF Len(th.frames) = 1 THEN "done" ELSE "unwind"]

ConcurrentSchemas ==
    {[f \in Pointers \cup {""} |-> IF f = "" THEN root ELSE nodes[f]] :
        root \in RootChoices,
        nodes \in [Pointers -> {Plain("n"), RefNode(Ref("file", "common.yaml", "/m"))}
                        \cup {RefNode(Ref("fragment", "", f)) : f \in Pointers}]}

ConcurrentRequests ==
    {Frame(Ref("fragment", "", "/a"), None), Frame(Ref("fragment", "", ""), None),
     Frame(Ref("fragment", "", "/a"), Dynamic)}

InitConcurrent ==
    /\ op = "call"
    /\ cls = None
    /\ allowed_types = None
    /\ \E schema \in ConcurrentSchemas :
            resolver = [store |-> [d \in {""} |-> schema],
                        _scopes_stack |-> <<base_uri>>]
    /\ value = resolver
    /\ result = Pending
    /\ frames = <<>>
    /\ logic = None
    /\ threads \in UNION {[1..n -> {Caller(r) : r \in ConcurrentRequests}] :
                            n \in 1..MaxThreads}

\* a thread calls schema.resolve(ref, document)
ConcurrentCall(i) ==
    /\ threads[i].op = "call"
    /\ threads' = [threads EXCEPT ![i].op = "resolve",
                                  ![i].frames = <<threads[i].request>>]
    /\ UNCHANGED <<op, cls, allowed_types, value, result, resolver, frames, logic>>

\* lines 50-69: nothing is found at the URL
ConcurrentUnresolvable(i) ==
    /\ threads[i].op = "resolve"
    /\ ~FoundOf(threads[i]).ok
    /\ threads' = [threads EXCEPT ![i] =
            Left(@, Unresolvable(FoundOf(threads[i]).v, resolver._scopes_stack))]
    /\ resolver' = [resolver EXCEPT !.store = StoreAfter(@, UrlOf(threads[i]))]
    /\ UNCHANGED <<op, cls, allowed_types, value, result, frames, logic>>

\* lines 71-80: a reference at a URL that is on the stack
ConcurrentCircular(i) ==
    /\ threads[i].op = "resolve"
    /\ FoundOf(threads[i]).ok
    /\ FoundOf(threads[i]).v.t = "$ref"
    /\ OnStack(UrlOf(threads[i]), resolver._scopes_stack)
    /\ threads' = [threads EXCEPT ![i] =
            Left(@, Circular(resolver._scopes_stack, UrlOf(threads[i])))]
    /\ resolver' = [resolver EXCEPT !.store = StoreAfter(@, UrlOf(threads[i]))]
    /\ UNCHANGED <<op, cls, allowed_types, value, result, frames, logic>>

\* lines 81-83: the URL is pushed and the reference resolved by a new call
ConcurrentFollow(i) ==
    /\ threads[i].op = "resolve"
    /\ FoundOf(threads[i]).ok
    /\ FoundOf(threads[i]).v.t = "$ref"
    /\ ~OnStack(UrlOf(threads[i]), resolver._scopes_stack)
    /\ resolver' = [store |-> StoreAfter(resolver.store, UrlOf(threads[i])),
                    _scopes_stack |->
                        push_scope(resolver._scopes_stack, UrlOf(threads[i]))]
    /\ threads' = [threads EXCEPT ![i].frames =
                        Append(@, Frame(FoundOf(threads[i]).v.ref, None))]
    /\ UNCHANGED <<op, cls, allowed_types, value, result, frames, logic>>

\* lines 86-87: what is found is no reference
ConcurrentReturn(i) ==
    /\ threads[i].op = "resolve"
    /\ FoundOf(threads[i]).ok
    /\ FoundOf(threads[i]).v.t # "$ref"
    /\ threads' = [threads EXCEPT ![i] =
            Left(@, Returned(<<UrlOf(threads[i]), FoundOf(threads[i]).v>>))]
    /\ resolver' = [resolver EXCEPT !.store = StoreAfter(@, UrlOf(threads[i]))]
    /\ UNCHANGED <<op, cls, allowed_types, value, result, frames, logic>>

\* lines 84-85: the finally clause of the innermost call that waits
ConcurrentFinally(i) ==
    /\ threads[i].op = "unwind"
    /\ resolver' = [resolver EXCEPT !._scopes_stack = pop_scope(@)]
    /\ threads' = [threads EXCEPT ![i] = Left(@, threads[i].result)]
    /\ UNCHANGED <<op, cls, allowed_types, value, result, frames, logic>>

NextConcurrent ==
    \/ \E i \in DOMAIN threads : ConcurrentCall(i)
    \/ \E i \in DOMAIN threads : ConcurrentUnresolvable(i)
    \/ \E i \in DOMAIN threads : ConcurrentCircular(i)
    \/ \E i \in DOMAIN threads : ConcurrentFollow(i)
    \/ \E i \in DOMAIN threads : ConcurrentReturn(i)
    \/ \E i \in DOMAIN threads : ConcurrentFinally(i)

SpecConcurrent == InitConcurrent /\ [][NextConcurrent]_vars

(***************************************************************************)
(* Concurrent calls of resolve: the claims.                                *)
(***************************************************************************)
\* what the call of a thread gives when it runs alone
Alone(th) ==
    resolve(value.store, value._scopes_stack, th.request.ref, th.request.document)

\* two outcomes are the same: both return the same value or both raise the
\* same error with the same message
SameOutcome(a, b) ==
    /\ a.exc = b.exc
    /\ IF a.exc = "none" THEN a.v = b.v
       ELSE a.v.fmt = b.v.fmt /\ a.v.arg = b.v.arg

\* C27: calls of resolve that run concurrently on the resolver of one Schema
\* each end with the outcome they have when they run alone, and the scope
\* stack is what it was once all of them have ended.
C27_AsAlone ==
    /\ \A i \in DOMAIN threads :
        threads[i].op = "done" => SameOutcome(threads[i].result, Alone(threads[i]))
    /\ (\A i \in DOMAIN threads : threads[i].op = "done") =>
            resolver._scopes_stack = value._scopes_stack

(***************************************************************************)
(* Object validation: the required keys of a result.                       *)
(***************************************************************************)
\* C28: when the call of an Object class succeeds, every key of the class's
\* required list is a key of the result, also a required key that is not
\* declared in properties.
C28_RequiredInResult ==
    (op = "Object" /\ Succeeded) => Range(cls.required) \subseteq DOMAIN result.v.v

(***************************************************************************)
(* doctor/types.py: new_type on a class that a factory has made.  cls is   *)
(* the parent first and the derived class after new_type; frames keeps the *)
(* parent.                                                                 *)
(***************************************************************************)
\* type(cls.__name__, (cls,), kwargs), description being one of the kwargs
new_type(c, kwargs) == Subclass(c, kwargs)

ParentClasses ==
    {Age,
     integer([description |-> Text("description"), minimum |-> PyInt(1)]),
     number([description |-> Text("description"), maximum |-> PyFloat(15, 1),
             exclusive_maximum |-> TRUE]),
     number([description |-> Text("description"), multiple_of |-> PyInt(2)])}

\* the keyword arguments of new_type: the description alone, or with a
\* maximum of its own
DerivedKwargs ==
    {[description |-> Text("other description")],
     [description |-> Text("other description"), maximum |-> PyInt(2)]}

InitDerived ==
    /\ op = "call"
    /\ cls \in ParentClasses
    /\ allowed_types = None
    /\ value \in NumericValues
    /\ result = Pending
    /\ resolver = None
    /\ frames = <<>>
    /\ logic = None
    /\ threads = <<>>

NewType ==
    /\ op = "call"
    /\ op' = "new_type"
    /\ \E kwargs \in DerivedKwargs : cls' = new_type(cls, kwargs)
    /\ frames' = <<cls>>
    /\ UNCHANGED <<allowed_types, value, result, resolver, logic, threads>>

\* the derived class is called with the value
DerivedNew ==
    /\ op = "new_type"
    /\ op' = "derived"
    /\ result' = New(cls, value)
    /\ UNCHANGED <<cls, allowed_types, value, resolver, frames, logic, threads>>

NextDerived == NewType \/ DerivedNew

SpecDerived == InitDerived /\ [][NextDerived]_vars

(***************************************************************************)
(* new_type: the claims.                                                   *)
(***************************************************************************)
\* a class with the attributes of the derived class, all of them its own, as
\* a factory makes it
AsFactoryMade == [cls EXCEPT !.own = DOMAIN cls \ {"kind", "own"}]

\* C29: a class derived with new_type from a class with constraints enforces
\* the constraints it inherits: a value that violates one is rejected with
\* the TypeSystemError and the message that a class made by the factory with
\* the same constraints gives, and any other value has the same outcome too.
C29_InheritedConstraints ==
    op = "derived" =>
        /\ result.exc = New(AsFactoryMade, value).exc
        /\ result.v = New(AsFactoryMade, value).v

(***************************************************************************)
(* doctor/utils/__init__.py: get_params_from_func and                      *)
(* add_param_annotations; doctor/routing.py: HTTPMethod.__init__.  logic   *)
(* is the logic function: the parameters of its own signature and the      *)
(* doctor attributes it has; value is the list of the params lists that    *)
(* add_param_annotations has been called with.                             *)
(***************************************************************************)
\* inspect.Parameter; default is Empty when there is none
Parameter(name, kind, default, annotation) ==
    [name |-> name, kind |-> kind, default |-> default, annotation |-> annotation]

RequestParamAnnotation(name, annotation, required) ==
    [name |-> name, annotation |-> annotation, required |-> required]

Params(all, required, optional, logic_params) ==
    [all |-> all, required |-> required, optional |-> optional,
     logic |-> logic_params]

Names(parameters) == [i \in DOMAIN parameters |-> parameters[i].name]

\* issubclass(p.annotation, SuperType)
IsSuperType(annotation) == annotation.kind \notin {"builtin", "empty"}

\* p.default != p.empty
HasDefault(q) == "kind" \notin DOMAIN q.default

get_params_from_func(signature) ==
    Params(Names(signature),
           Names(SelectSeq(signature,
                           LAMBDA q : ~HasDefault(q)
                                      /\ IsSuperType(q.annotation))),
           Names(SelectSeq(signature, LAMBDA q : HasDefault(q))),
           Names(signature))

\* the loop over params: the names are appended to all and to required or
\* optional
RECURSIVE WithAnnotations(_, _, _)
WithAnnotations(doctor_params, params, i) ==
    IF i > Len(params) THEN doctor_params
    ELSE WithAnnotations(
            [doctor_params EXCEPT
                !.all = Append(@, params[i].name),
                !.required = IF params[i].required
                             THEN Append(@, params[i].name) ELSE @,
                !.optional = IF params[i].required
                             THEN @ ELSE Append(@, params[i].name)],
            params, i + 1)

\* new_params
NewParameters(params) ==
    [i \in DOMAIN params |->
        Parameter(params[i].name, "KEYWORD_ONLY",
                  IF params[i].required THEN Empty ELSE None,
                  params[i].annotation)]

\* sig.replace(parameters=...) raises ValueError for a duplicate name
Replaced(parameters) ==
    IF \E i, j \in DOMAIN parameters :
            i # j /\ parameters[i].name = parameters[j].name
    THEN Raised("ValueError", Msg("duplicate parameter name: {!r}", None))
    ELSE Returned(parameters)

\* the function after add_param_annotations(fn, params) and what the call
\* returns or raises: sig is inspect.signature(fn), the function's own
\* signature
add_param_annotations(fn, params) ==
    LET sig == fn.signature
        doctor_params == WithAnnotations(get_params_from_func(sig), params, 1)
        new_sig == Replaced(sig \o NewParameters(params))
    IN  IF new_sig.exc # "none" THEN [fn |-> fn, outcome |-> new_sig]
        ELSE [fn |-> DictSet(DictSet(fn, "_doctor_signature", new_sig.v),
                             "_doctor_params", doctor_params),
              outcome |-> Returned(Text("logic"))]

\* the logic function after HTTPMethod(method, fn, allowed_exceptions, title)
HTTPMethodInit(fn, allowed_exceptions, title) ==
    LET signed == IF HasAttr(fn, "_doctor_signature") THEN fn
                  ELSE DictSet(fn, "_doctor_signature", fn.signature)
        counted == IF HasAttr(signed, "_doctor_params") THEN signed
                   ELSE DictSet(signed, "_doctor_params",
                                get_params_from_func(signed._doctor_signature))
    IN  DictSet(DictSet(counted, "_doctor_allowed_exceptions", allowed_exceptions),
                "_doctor_title", title)

\* a function with its own signature and no doctor attributes
Function(signature) == [signature |-> signature]

\* def get_foo(name: Name, age: Age, is_alive: IsAlive=True), and the same
\* behind a decorator that passes it a first argument
LogicSignatures ==
    {<<Parameter("name", "POSITIONAL_OR_KEYWORD", Empty, Auth),
       Parameter("age", "POSITIONAL_OR_KEYWORD", Empty, Age),
       Parameter("is_alive", "POSITIONAL_OR_KEYWORD", PyBool(TRUE), IncludeDeleted)>>,
     <<Parameter("extra", "POSITIONAL_OR_KEYWORD", Empty, BuiltinInt),
       Parameter("name", "POSITIONAL_OR_KEYWORD", Empty, Auth)>>}

Annotations ==
    {RequestParamAnnotation("auth", Auth, TRUE),
     RequestParamAnnotation("auth", Auth, FALSE),
     RequestParamAnnotation("is_deleted", IncludeDeleted, FALSE),
     RequestParamAnnotation("name", Auth, TRUE)}

AnnotationLists == UNION {[1..n -> Annotations] : n \in 0..MaxAnnotations}

InitAnnotate ==
    /\ op = "call"
    /\ cls = None
    /\ allowed_types = None
    /\ value = <<>>
    /\ result = Pending
    /\ resolver = None
    /\ frames = <<>>
    /\ logic \in {Function(sig) : sig \in LogicSignatures}
    /\ threads = <<>>

AddParamAnnotations ==
    /\ op \in {"call", "add_param_annotations"}
    /\ Len(value) < MaxApplications
    /\ ~HasAttr(logic, "_doctor_title")
    /\ \E params \in AnnotationLists :
        /\ value' = IF add_param_annotations(logic, params).outcome.exc = "none"
                    THEN Append(value, params) ELSE value
        /\ logic' = add_param_annotations(logic, params).fn
        /\ result' = add_param_annotations(logic, params).outcome
    /\ op' = "add_param_annotations"
    /\ UNCHANGED <<cls, allowed_types, resolver, frames, threads>>

\* get(logic, title=...): the function is handed to a route
HttpMethodInit ==
    /\ op \in {"call", "add_param_annotations"}
    /\ ~HasAttr(logic, "_doctor_title")
    /\ op' = "HTTPMethod"
    /\ logic' = HTTPMethodInit(logic, None, Text("title"))
    /\ result' = Returned(Text("logic"))
    /\ UNCHANGED <<cls, allowed_types, value, resolver, frames, threads>>

NextAnnotate == AddParamAnnotations \/ HttpMethodInit

SpecAnnotate == InitAnnotate /\ [][NextAnnotate]_vars

(***************************************************************************)
(* add_param_annotations: the claims.                                      *)
(***************************************************************************)
\* the params list of the last application that returned
LastApplied == value[Len(value)]

\* C30: when add_param_annotations returns, the function's doctor params
\* have the names of its own signature followed by the names of the given
\* parameters in all, each given name in required or in optional as its
\* flag says, and the names of its own signature in logic; the parameters
\* given to earlier applications are still in all and in the doctor
\* signature.
C30_AnnotationsAccumulate ==
    (op = "add_param_annotations" /\ result.exc = "none") =>
        /\ logic._doctor_params.logic = Names(logic.signature)
        /\ \A i \in DOMAIN LastApplied :
            /\ LastApplied[i].name \in Range(logic._doctor_params.all)
            /\ LastApplied[i].name \in
                    Range(IF LastApplied[i].required
                          THEN logic._doctor_params.required
                          ELSE logic._doctor_params.optional)
        /\ \A k \in DOMAIN value : \A i \in DOMAIN value[k] :
            /\ value[k][i].name \in Range(logic._doctor_params.all)
            /\ value[k][i].name \in Range(Names(logic._doctor_signature))

====
